---- MODULE Spec2Model ----
(***************************************************************************)
(* Model of snippy's block extraction engine (DelimiterIdentifier,         *)
(* BlockExtractor) and block application engine (FullContentApplier,       *)
(* DiffApplier, SearchReplaceApplier, ContentApplier), of the loop of      *)
(* ClipboardWatcher::process_standard that applies the extracted blocks,   *)
(* of apply calls spawned concurrently and of the watch loop of            *)
(* ClipboardWatcher::run.                                                  *)
(*                                                                         *)
(* A text is a sequence of tokens.  A token stands for one character or    *)
(* for one fixed lexeme of the wire format (three backticks, "//",         *)
(* "filename:", "---", "a/"), so an offset counts tokens.  Offsets are     *)
(* 0-based as in the source: the token at offset i of c is c[i+1].         *)
(***************************************************************************)
EXTENDS Integers, Sequences, FiniteSets, TLC

VARIABLES
    lines,       \* the input text as a sequence of lines (input bookkeeping)
    content,     \* extract_blocks: the text being scanned
    delimiters,  \* extract_blocks: markers returned by identify_delimiters
    stack,       \* extract_blocks: stack of open markers
    blocks,      \* extract_blocks: emitted ParsedBlocks
    di,          \* extract_blocks: number of markers consumed by the for loop
    opened,      \* history: start_index of the fence-open marker of each block
    fs,          \* the files under base_path: filename -> None | Some(content)
    logs,        \* the diagnostic artifacts in the logs directory
    call,        \* the last apply call: its block, the files before it, its result
    ncalls,      \* number of apply calls made
    nfailed,     \* number of diff apply calls that returned an error
    nwrites,     \* number of file writes performed by a full-content applier
    tasks,       \* the spawned apply calls: task -> block, position, locals
    clipboard,   \* the text on the system clipboard
    last_content,\* ClipboardWatcher::run: its local last_content
    ticked,      \* history: the content and the outcome of every tick
    pc           \* control state of the run

evars == <<lines, content, delimiters, stack, blocks, di, opened>>
avars == <<fs, logs, call, ncalls, nfailed, nwrites>>
cwvars == <<tasks, clipboard, last_content, ticked>>
vars == <<evars, avars, cwvars, pc>>

\* no call is spawned and no watcher runs
CwIdle ==
    tasks = <<>> /\ clipboard = <<>> /\ last_content = <<>> /\ ticked = <<>>

-----------------------------------------------------------------------------
(* Bounds of the input space.                                              *)

MaxLines == 5

-----------------------------------------------------------------------------
(* Generic helpers.                                                        *)

Min(S) == CHOOSE x \in S : \A y \in S : x <= y
Max(S) == CHOOSE x \in S : \A y \in S : x >= y

None == <<>>
Some(x) == <<x>>

\* the element of a singleton set: The({e(v) : v \in {x}}) is e(x) with x
\* evaluated once
The(S) == CHOOSE r \in S : TRUE

\* the value of `call` before any apply call
NoCall == [applier |-> "none"]

RECURSIVE Concat(_)
Concat(ss) == IF ss = <<>> THEN <<>> ELSE Head(ss) \o Concat(Tail(ss))

\* str::join("\n") of a sequence of lines
RECURSIVE JoinLines(_)
JoinLines(ls) ==
    IF ls = <<>> THEN <<>>
    ELSE IF Len(ls) = 1 THEN ls[1]
    ELSE ls[1] \o <<"\n">> \o JoinLines(Tail(ls))

-----------------------------------------------------------------------------
(* Character classes of the regex crate.                                   *)

IsWs(ch) == ch \in {" ", "\n", "\r"}
IsWord(ch) == ch \in {"r", "diff", "replace"}
\* the fence lexeme: three backticks
IsTick(ch) == ch = "<ticks>"
IsHash(ch) == ch = "#"
IsNameCh(ch) == ~IsWs(ch) /\ ~IsTick(ch)
NotNl(ch) == ch # "\n"

\* membership of a token in a character class of the regexes: \s, \w, #,
\* [^`\s] and [^\n]
InClass(class, ch) ==
    CASE class = "whitespace" -> IsWs(ch)
      [] class = "word" -> IsWord(ch)
      [] class = "hash" -> IsHash(ch)
      [] class = "name" -> IsNameCh(ch)
      [] class = "not_newline" -> NotNl(ch)

\* least offset j >= i such that the token at j is not in the class (or j is
\* the end of c): the end of a greedy run class* started at i
ScanWhile(c, i, class) ==
    Min({j \in i..Len(c) : j = Len(c) \/ ~InClass(class, c[j + 1])})

SkipWs(c, i) == ScanWhile(c, i, "whitespace")
LineEnd(c, i) == ScanWhile(c, i, "not_newline")

\* (?m)^ at offset q
AtLineStart(c, q) == q = 0 \/ c[q] = "\n"

\* end offset of a greedy `\s*$` started at offset w, -1 when it cannot match
TrailEnd(c, w) ==
    LET v == SkipWs(c, w)
        nls == {j \in w..(v - 1) : c[j + 1] = "\n"}
    IN  IF v = Len(c) THEN v
        ELSE IF nls = {} THEN -1
        ELSE Max(nls)

\* str::trim on a token sequence
RECURSIVE TrimStart(_)
TrimStart(s) == IF s # <<>> /\ IsWs(s[1]) THEN TrimStart(Tail(s)) ELSE s
RECURSIVE TrimEnd(_)
TrimEnd(s) ==
    IF s # <<>> /\ IsWs(s[Len(s)]) THEN TrimEnd(SubSeq(s, 1, Len(s) - 1)) ELSE s
Trim(s) == TrimEnd(TrimStart(s))

NoMatch == [ok |-> FALSE, start |-> 0, end |-> 0, cap |-> <<>>]

-----------------------------------------------------------------------------
(* The regexes of DelimiterIdentifier::new, each as the match attempted at  *)
(* a line start q: leading `^\s*` is greedy and the token after it is not   *)
(* whitespace, so the match, if any, continues at SkipWs(c, q).            *)

\* (?m)^\s*```(\w+)\s*$
start_delimiter_re(c, q) ==
    LET p == SkipWs(c, q)
    IN  IF p < Len(c) /\ IsTick(c[p + 1]) /\ p + 1 < Len(c)
        THEN LET w == ScanWhile(c, p + 1, "word")
                 e == TrailEnd(c, w)
             IN  IF w > p + 1 /\ e >= 0
                 THEN [ok |-> TRUE, start |-> q, end |-> e,
                       cap |-> SubSeq(c, p + 2, w)]
                 ELSE NoMatch
        ELSE NoMatch

\* (?m)^\s*```\s*$
end_delimiter_re(c, q) ==
    LET p == SkipWs(c, q)
    IN  IF p < Len(c) /\ IsTick(c[p + 1])
        THEN LET e == TrailEnd(c, p + 1)
             IN  IF e >= 0
                 THEN [ok |-> TRUE, start |-> q, end |-> e, cap |-> <<>>]
                 ELSE NoMatch
        ELSE NoMatch

\* (?m)^\s*#{1,}\s*`?([^`\s]+)`?
\* greedy: all the hashes, then the name after the whitespace; when no name
\* follows, #{1,} gives one hash back and that hash is the name
heading_re(c, q) ==
    LET p == SkipWs(c, q)
    IN  IF p < Len(c) /\ IsHash(c[p + 1])
        THEN LET h == ScanWhile(c, p + 1, "hash")
                 s == SkipWs(c, h)
                 n == IF s < Len(c) THEN ScanWhile(c, s, "name") ELSE s
             IN  IF n > s
                 THEN [ok |-> TRUE, start |-> q, end |-> n,
                       cap |-> SubSeq(c, s + 1, n)]
                 ELSE IF h > p + 1
                 THEN [ok |-> TRUE, start |-> q, end |-> h,
                       cap |-> SubSeq(c, h, h)]
                 ELSE NoMatch
        ELSE NoMatch

\* the tail `\s*(.+)` of filename_re and diff_file_re started at offset u:
\* greedy whitespace (newlines included), then the rest of that line; when
\* only whitespace remains, `\s*` backs off to the last token that is not a
\* newline
RestOfLine(c, q, u) ==
    LET v == SkipWs(c, u)
        sp == {k \in u..(Len(c) - 1) : c[k + 1] # "\n"}
    IN  IF v < Len(c)
        THEN [ok |-> TRUE, start |-> q, end |-> LineEnd(c, v),
              cap |-> SubSeq(c, v + 1, LineEnd(c, v))]
        ELSE IF sp # {}
        THEN [ok |-> TRUE, start |-> q, end |-> Max(sp) + 1,
              cap |-> SubSeq(c, Max(sp) + 1, Max(sp) + 1)]
        ELSE NoMatch

\* (?m)^\s*(?://|#)\s*filename:\s*(.+)   (first alternative of filename_re)
filename_re(c, q) ==
    LET p == SkipWs(c, q)
    IN  IF p < Len(c) /\ c[p + 1] \in {"//", "#"}
        THEN LET a == SkipWs(c, p + 1)
             IN  IF a < Len(c) /\ c[a + 1] = "filename:"
                 THEN RestOfLine(c, q, a + 1)
                 ELSE NoMatch
        ELSE NoMatch

\* (?m)^\s*---\s*(.+)
diff_file_re(c, q) ==
    LET p == SkipWs(c, q)
    IN  IF p < Len(c) /\ c[p + 1] = "---"
        THEN RestOfLine(c, q, p + 1)
        ELSE NoMatch

MatchAt(re, c, q) ==
    CASE re = "start" -> start_delimiter_re(c, q)
      [] re = "end" -> end_delimiter_re(c, q)
      [] re = "heading" -> heading_re(c, q)
      [] re = "filename" -> filename_re(c, q)
      [] re = "diff_file" -> diff_file_re(c, q)

\* Regex::captures_iter: the leftmost match at or after `from`, then on
\* from the end of that match
RECURSIVE captures_iter(_, _, _)
captures_iter(re, c, from) ==
    LET cand == {q \in from..Len(c) : AtLineStart(c, q) /\ MatchAt(re, c, q).ok}
    IN  IF cand = {} THEN <<>>
        ELSE LET m == MatchAt(re, c, Min(cand))
             IN  <<m>> \o captures_iter(re, c, m.end)


-----------------------------------------------------------------------------
(* DelimiterIdentifier::identify_delimiters                                *)

FullContent == "FullContent"
UnifiedDiff == "UnifiedDiff"
SearchReplaceBlock == "SearchReplaceBlock"

\* the headings vector: (start of the match, captured name)
headings(c) == captures_iter("heading", c, 0)

\* the matches the filenames HashMap is filled from: the directive matches
\* are inserted first, the diff source lines after them
filenames(c) ==
    [directives |-> captures_iter("filename", c, 0),
     diff_files |-> captures_iter("diff_file", c, 0)]

\* filenames.get without the diff source lines
filenames_get_directives_only(fns, idx) ==
    LET fm == fns.directives
        fk == {k \in 1..Len(fm) : fm[k].start = idx}
    IN  IF fk # {} THEN Some(Trim(fm[Max(fk)].cap)) ELSE None

\* filenames.get(&idx): keyed by the offset of the match, a diff entry
\* overriding a directive entry
filenames_get(fns, idx) ==
    LET fm == fns.directives
        dm == fns.diff_files
        dk == {k \in 1..Len(dm) : dm[k].start = idx}
        fk == {k \in 1..Len(fm) : fm[k].start = idx}
    IN  IF dk # {} THEN Some(Trim(dm[Max(dk)].cap))
        ELSE IF fk # {} THEN Some(Trim(fm[Max(fk)].cap))
        ELSE None

\* language -> BlockType
block_type_of(language) ==
    IF language = <<"diff">> THEN UnifiedDiff
    ELSE IF language = <<"replace">> THEN SearchReplaceBlock
    ELSE FullContent

\* content[end_index..].find('\n').map(|pos| end_index + pos + 1)
\*                                .unwrap_or(end_index)
after_newline(c, i) == IF LineEnd(c, i) < Len(c) THEN LineEnd(c, i) + 1 ELSE i

starts_with(c, i, pre) ==
    i + Len(pre) <= Len(c) /\ SubSeq(c, i + 1, i + Len(pre)) = pre

\* heading_before without the lower limit: the nearest preceding heading,
\* however far back
heading_before_unbounded(hs, start_index, last) ==
    LET ok == {k \in 1..Len(hs) : hs[k].start < start_index}
    IN  IF ok = {} THEN None ELSE Some(hs[Max(ok)].cap)

\* the nearest preceding heading of the headings vector at or after the
\* previous fence-open marker
heading_before(hs, start_index, last) ==
    LET ok == {k \in 1..Len(hs) :
                  hs[k].start < start_index /\ hs[k].start >= last}
    IN  IF ok = {} THEN None ELSE Some(hs[Max(ok)].cap)

\* fname[2..] when fname starts with "a/" or "b/"
strip_prefix(fname) ==
    IF fname # <<>> /\ fname[1] \in {"a/", "b/"} THEN Tail(fname) ELSE fname

\* start_marker with the lookup order swapped: a preceding heading is taken
\* before the filenames map is consulted
start_marker_heading_first(c, hs, fns, m, last) ==
    The({LET start_index == m.start
             end_index == m.end
             language == m.cap
             is_start == language # <<>>
             block_type == block_type_of(language)
             content_start ==
                 IF in_map # None /\ block_type # UnifiedDiff
                 THEN after_newline(c, filename_index)
                 ELSE IF starts_with(c, end_index, <<"\n">>) THEN end_index + 1
                 ELSE IF starts_with(c, end_index, <<"\r", "\n">>)
                 THEN end_index + 2
                 ELSE end_index
             found == IF heading_before(hs, start_index, last) # None
                      THEN heading_before(hs, start_index, last)
                      ELSE in_map
             filename == The({IF f = None THEN None ELSE Some(strip_prefix(f[1])) :
                              f \in {found}})
         IN  [start_index |-> start_index, content_start |-> content_start,
              is_start |-> is_start, filename |-> filename,
              block_type |-> block_type] :
         filename_index \in {after_newline(c, m.end)},
         in_map \in {filenames_get(fns, after_newline(c, m.end))}})

\* one iteration of the loop over start_delimiter_re matches; `hs` is the
\* headings vector, `fns` the filenames map, `last` is
\* delimiters.last().start_index, or 0 for the first match
start_marker(c, hs, fns, m, last) ==
    The({LET start_index == m.start
             end_index == m.end
             language == m.cap
             is_start == language # <<>>
             block_type == block_type_of(language)
             content_start ==
                 IF in_map # None /\ block_type # UnifiedDiff
                 THEN after_newline(c, filename_index)
                 ELSE IF starts_with(c, end_index, <<"\n">>) THEN end_index + 1
                 ELSE IF starts_with(c, end_index, <<"\r", "\n">>)
                 THEN end_index + 2
                 ELSE end_index
             found == IF in_map # None THEN in_map
                      ELSE heading_before(hs, start_index, last)
             filename == The({IF f = None THEN None ELSE Some(strip_prefix(f[1])) :
                              f \in {found}})
         IN  [start_index |-> start_index, content_start |-> content_start,
              is_start |-> is_start, filename |-> filename,
              block_type |-> block_type] :
         filename_index \in {after_newline(c, m.end)},
         in_map \in {filenames_get(fns, after_newline(c, m.end))}})

end_marker(m) ==
    [start_index |-> m.start, content_start |-> m.end, is_start |-> FALSE,
     filename |-> None, block_type |-> FullContent]

\* slice::sort_by_key (stable) on start_index
sort_by_start_index(ds) ==
    LET n == Len(ds)
        rank(i) == Cardinality({j \in 1..n :
                       \/ ds[j].start_index < ds[i].start_index
                       \/ ds[j].start_index = ds[i].start_index /\ j < i}) + 1
    IN  [k \in 1..n |-> ds[CHOOSE i \in 1..n : rank(i) = k]]

\* the markers pushed before the sort: fence-open markers, then fence-close
unsorted_delimiters(c) ==
    The({[k \in 1..Len(sm) |->
             start_marker(c, hs, fns, sm[k],
                          IF k = 1 THEN 0 ELSE sm[k - 1].start)]
         \o [k \in 1..Len(em) |-> end_marker(em[k])] :
         hs \in {headings(c)},
         fns \in {filenames(c)},
         sm \in {captures_iter("start", c, 0)},
         em \in {captures_iter("end", c, 0)}})

\* Ok(delimiters); the empty sequence stands for Err(FormatError)
identify_delimiters(c) ==
    The({sort_by_start_index(ds) : ds \in {unsorted_delimiters(c)}})

-----------------------------------------------------------------------------
(* BlockExtractor::extract_blocks as a state machine: one step per marker.  *)

ParsedBlock(d, c, end_index) ==
    [filename |-> d.filename[1],
     content |-> SubSeq(c, d.content_start + 1, end_index),
     block_type |-> d.block_type]

\* input texts: an optional leading fence followed by up to MaxLines lines
RECURSIVE SeqsUpTo(_, _)
SeqsUpTo(S, n) ==
    IF n = 0 THEN {<<>>}
    ELSE LET T == SeqsUpTo(S, n - 1)
         IN  T \cup {Append(t, x) : t \in {u \in T : Len(u) = n - 1}, x \in S}

LineKinds ==
    { <<>>,
      <<"x">>,
      <<"<ticks>", "r">>,
      <<"<ticks>">>,
      <<"//", "filename:", " ", "f">>,
      <<"#", " ", "g">> }

\* the leading fences: none, an unlabeled fence whose body is one blank
\* line, a fence labeled by a heading
Prologues ==
    { <<>>,
      << <<"<ticks>", "r">>, <<>>, <<"<ticks>">> >>,
      << <<"#", " ", "g">>, <<"<ticks>", "r">>, <<"<ticks>">> >> }

ExtractInit ==
    /\ lines \in {p \o t : p \in Prologues, t \in SeqsUpTo(LineKinds, MaxLines)}
    /\ content = JoinLines(lines)
    /\ delimiters = <<>>
    /\ stack = <<>>
    /\ blocks = <<>>
    /\ di = 0 /\ opened = <<>>
    /\ CwIdle
    /\ pc = "identify"
    /\ fs = <<>> /\ logs = <<>> /\ call = NoCall
    /\ ncalls = 0 /\ nfailed = 0 /\ nwrites = 0

\* Identify without the `?`: an empty marker list enters the loop
Identify_without_error ==
    /\ pc = "identify"
    /\ delimiters' = identify_delimiters(content)
    /\ pc' = "loop"
    /\ UNCHANGED <<cwvars, lines, content, stack, blocks, di, opened, avars>>

\* let delimiters = self.delimiter_identifier.identify_delimiters(content)?
Identify ==
    /\ pc = "identify"
    /\ delimiters' = identify_delimiters(content)
    /\ pc' = IF delimiters' = <<>> THEN "error" ELSE "loop"
    /\ UNCHANGED <<cwvars, lines, content, stack, blocks, di, opened, avars>>

Current == delimiters[di + 1]
InLoop == pc = "loop" /\ di < Len(delimiters)
Popped == stack[Len(stack)]
Rest == SubSeq(stack, 1, Len(stack) - 1)

\* if delimiter.is_start { stack.push(delimiter) }
Push ==
    /\ InLoop /\ Current.is_start
    /\ stack' = Append(stack, Current)
    /\ di' = di + 1
    /\ UNCHANGED <<cwvars, lines, content, delimiters, blocks, pc, opened, avars>>

\* a fence-close marker on an empty stack ending the loop, the markers after
\* it left unread
CloseIgnored_breaks ==
    /\ InLoop /\ ~Current.is_start /\ stack = <<>>
    /\ pc' = "done"
    /\ UNCHANGED <<cwvars, lines, content, delimiters, stack, blocks, di, opened, avars>>

\* a fence-close marker when the stack is empty: stack.pop() is None
CloseIgnored ==
    /\ InLoop /\ ~Current.is_start /\ stack = <<>>
    /\ di' = di + 1
    /\ UNCHANGED <<cwvars, lines, content, delimiters, stack, blocks, pc, opened, avars>>

\* the popped marker was nested: the stack is not empty after the pop
PopNested ==
    /\ InLoop /\ ~Current.is_start /\ stack # <<>> /\ Rest # <<>>
    /\ stack' = Rest
    /\ di' = di + 1
    /\ UNCHANGED <<cwvars, lines, content, delimiters, blocks, pc, opened, avars>>

\* content[start_index..end_index] with start_index > end_index panics
PopPanic ==
    /\ InLoop /\ ~Current.is_start /\ stack # <<>> /\ Rest = <<>>
    /\ Popped.content_start > Current.start_index
    /\ stack' = Rest
    /\ pc' = "panic"
    /\ UNCHANGED <<cwvars, lines, content, delimiters, blocks, di, opened, avars>>

\* PopEmit with blocks.insert(0, block) in place of blocks.push(block)
PopEmit_insert_front ==
    /\ InLoop /\ ~Current.is_start /\ stack # <<>> /\ Rest = <<>>
    /\ Popped.content_start <= Current.start_index
    /\ Popped.filename # None
    /\ stack' = Rest
    /\ blocks' = <<ParsedBlock(Popped, content, Current.start_index)>> \o blocks
    /\ opened' = Append(opened, Popped.start_index)
    /\ di' = di + 1
    /\ UNCHANGED <<cwvars, lines, content, delimiters, pc, avars>>

\* a top-level block with a resolved filename is emitted
PopEmit ==
    /\ InLoop /\ ~Current.is_start /\ stack # <<>> /\ Rest = <<>>
    /\ Popped.content_start <= Current.start_index
    /\ Popped.filename # None
    /\ stack' = Rest
    /\ blocks' = Append(blocks, ParsedBlock(Popped, content, Current.start_index))
    /\ opened' = Append(opened, Popped.start_index)
    /\ di' = di + 1
    /\ UNCHANGED <<cwvars, lines, content, delimiters, pc, avars>>

\* a top-level block without a filename is dropped (`continue`)
PopDrop ==
    /\ InLoop /\ ~Current.is_start /\ stack # <<>> /\ Rest = <<>>
    /\ Popped.content_start <= Current.start_index
    /\ Popped.filename = None
    /\ stack' = Rest
    /\ di' = di + 1
    /\ UNCHANGED <<cwvars, lines, content, delimiters, blocks, pc, opened, avars>>

\* end of the loop: unclosed markers are warned about, Ok(blocks) returned
Finish ==
    /\ pc = "loop" /\ di = Len(delimiters)
    /\ pc' = "done"
    /\ UNCHANGED <<cwvars, lines, content, delimiters, stack, blocks, di, opened, avars>>

ExtractNext ==
    \/ Identify
    \/ Push
    \/ CloseIgnored
    \/ PopNested
    \/ PopPanic
    \/ PopEmit
    \/ PopDrop
    \/ Finish

SpecExtract == ExtractInit /\ [][ExtractNext]_vars

\* input texts for the resolution of filenames and block types: the three
\* tags, an untagged fence line, a directive naming a relative and one naming
\* an absolute path, a heading, a diff source line with a git prefix; an
\* optional leading fence that holds a heading and a nested fence
MaxLabelLines == 4

LabelKinds ==
    { <<>>,
      <<"<ticks>", "r">>,
      <<"<ticks>", "diff">>,
      <<"<ticks>", "replace">>,
      <<"<ticks>">>,
      <<"//", "filename:", " ", "f">>,
      <<"//", "filename:", " ", "/", "f">>,
      <<"#", " ", "g">>,
      <<"---", " ", "a/", "f">> }

LabelPrologues ==
    { <<>>,
      << <<"<ticks>", "r">>, <<"#", " ", "g">>, <<"<ticks>", "r">>,
         <<"<ticks>">>, <<"<ticks>">> >> }

LabelInit ==
    /\ lines \in {p \o t : p \in LabelPrologues,
                            t \in SeqsUpTo(LabelKinds, MaxLabelLines)}
    /\ content = JoinLines(lines)
    /\ delimiters = <<>>
    /\ stack = <<>>
    /\ blocks = <<>>
    /\ di = 0 /\ opened = <<>>
    /\ CwIdle
    /\ pc = "identify"
    /\ fs = <<>> /\ logs = <<>> /\ call = NoCall
    /\ ncalls = 0 /\ nfailed = 0 /\ nwrites = 0

SpecLabels == LabelInit /\ [][ExtractNext]_vars

-----------------------------------------------------------------------------
(* The file system under base_path.  fs maps a filename to None (the file   *)
(* does not exist) or Some(content).                                       *)

Files == {"f1", "f2"}

\* tokio::fs::read_to_string(path).await.unwrap_or_default()
read_to_string_or_default(fsv, f) == IF fsv[f] = None THEN <<>> ELSE fsv[f][1]

\* tokio::fs::write(path, content): creates or truncates the file
write(fsv, f, c) == [fsv EXCEPT ![f] = Some(c)]

\* tokio::fs::remove_file(path): an error when the file does not exist
remove_file(fsv, f) ==
    IF fsv[f] = None THEN [ok |-> FALSE, fs |-> fsv]
    ELSE [ok |-> TRUE, fs |-> [fsv EXCEPT ![f] = None]]

\* crate::utils::read_file_async(path).await.unwrap_or_default()
read_file_async_or_default(fsv, f) == read_to_string_or_default(fsv, f)

\* crate::utils::write_file_async(path, content)
write_file_async(fsv, f, c) == write(fsv, f, c)

\* crate::utils::remove_file_async(path)
remove_file_async(fsv, f) == remove_file(fsv, f)

\* every file system whose files are absent or hold a content of Contents
FileSystems(Contents) == [Files -> {None} \cup {Some(c) : c \in Contents}]

-----------------------------------------------------------------------------
(* Full-content appliers.                                                  *)

MaxCalls == 2
MaxContentLen == 2

FullContents == SeqsUpTo({"a", "\n"}, MaxContentLen)

\* FullContentApplier::apply: reads the file for the diff log, always writes
FullContentApplier_apply(fsv, block) ==
    [fs |-> write_file_async(fsv, block.filename, block.content),
     result |-> "Ok", wrote |-> TRUE]

\* ContentApplier::apply_full_content: writes only when the content differs
\* from the old content, an absent file reading as the empty string
ContentApplier_apply_full_content(fsv, block) ==
    LET old_content == read_to_string_or_default(fsv, block.filename)
    IN  IF old_content # block.content
        THEN [fs |-> write(fsv, block.filename, block.content),
              result |-> "Ok", wrote |-> TRUE]
        ELSE [fs |-> fsv, result |-> "Ok", wrote |-> FALSE]

FullBlocks ==
    [filename : Files, content : FullContents, block_type : {FullContent}]

FullInit ==
    /\ fs \in FileSystems(FullContents)
    /\ logs = <<>> /\ call = NoCall
    /\ ncalls = 0 /\ nfailed = 0 /\ nwrites = 0
    /\ lines = <<>> /\ content = <<>> /\ delimiters = <<>>
    /\ stack = <<>> /\ blocks = <<>> /\ di = 0 /\ opened = <<>>
    /\ CwIdle
    /\ pc = "idle"

FullCall(applier, block, r) ==
    /\ pc = "idle"
    /\ fs' = r.fs
    /\ call' = [applier |-> applier, block |-> block, before |-> fs,
                result |-> r.result, wrote |-> r.wrote]
    /\ ncalls' = ncalls + 1
    /\ nwrites' = nwrites + (IF r.wrote THEN 1 ELSE 0)
    /\ UNCHANGED <<cwvars, evars, logs, nfailed, pc>>

ApplyFullContent ==
    /\ ncalls < MaxCalls
    /\ \E block \in FullBlocks :
          FullCall("FullContentApplier", block, FullContentApplier_apply(fs, block))

ApplyFullContentCA ==
    /\ ncalls < MaxCalls
    /\ \E block \in FullBlocks :
          FullCall("ContentApplier", block,
                   ContentApplier_apply_full_content(fs, block))

FullNext == ApplyFullContent \/ ApplyFullContentCA

SpecFull == FullInit /\ [][FullNext]_vars

-----------------------------------------------------------------------------
(* Unified diffs.  A file is a sequence of lines; a diff block is a         *)
(* sequence of hunks.  A hunk carries the start line of its header, its    *)
(* pre-image (context and removed lines), its post-image (context and      *)
(* added lines) and whether its header counts agree with its body.         *)

MaxHunks == 2
MaxFileLines == 2

DiffLines == {"a", "b"}
FileImages == SeqsUpTo(DiffLines, MaxFileLines)

WellFormedHunks ==
    [start : 1..2, header_ok : {TRUE},
     pre : {<<"a">>, <<"b">>}, post : {<<>>, <<"b">>}]

\* a hunk whose header counts disagree with its body
MalformedHunk == [start |-> 1, header_ok |-> FALSE, pre |-> <<"a">>, post |-> <<>>]

Hunks == WellFormedHunks \cup {MalformedHunk}

\* the diff blocks: 1..MaxHunks hunks, at most the last one malformed
DiffContents ==
    {d \in SeqsUpTo(Hunks, MaxHunks) :
        d # <<>> /\ \A k \in 1..(Len(d) - 1) : d[k].header_ok}

\* diffy::Patch::from_str: a hunk whose header does not match its body is a
\* parse error
Patch_from_str(diff_content) ==
    IF \A k \in 1..Len(diff_content) : diff_content[k].header_ok
    THEN [ok |-> TRUE, hunks |-> diff_content]
    ELSE [ok |-> FALSE, hunks |-> <<>>]

\* diffy match_fragment: the pre-image occurs at offset pos of the image and
\* none of these lines was patched by an earlier hunk
match_fragment(image, pre, pos) ==
    /\ pos + Len(pre) <= Len(image)
    /\ \A k \in 1..Len(pre) :
          ~image[pos + k].patched /\ image[pos + k].line = pre[k]

\* diffy find_position: the hinted position first, then alternately one
\* step further backward and forward
find_position(image, hunk) ==
    LET pos == IF hunk.start - 1 < Len(image) THEN hunk.start - 1 ELSE Len(image)
        cands == {q \in 0..Len(image) :
                     (q = pos \/ q < Len(image)) /\ match_fragment(image, hunk.pre, q)}
        key(q) == IF q >= pos THEN 2 * (q - pos) + 1 ELSE 2 * (pos - q)
    IN  IF match_fragment(image, hunk.pre, pos) THEN pos
        ELSE IF cands = {} THEN -1
        ELSE CHOOSE q \in cands : \A o \in cands : key(q) <= key(o)

\* diffy apply_hunk: image.splice(pos..pos + pre_len, post_image)
apply_hunk(image, hunk, pos) ==
    SubSeq(image, 1, pos)
    \o [k \in 1..Len(hunk.post) |-> [line |-> hunk.post[k], patched |-> TRUE]]
    \o SubSeq(image, pos + Len(hunk.pre) + 1, Len(image))

\* diffy::apply: the hunks in order on a private image; Err(ApplyError(i))
\* at the first hunk i that finds no position.  `image` is the private
\* image when the function returns; it is dropped on an error.
RECURSIVE apply_hunks(_, _, _)
apply_hunks(image, hunks, i) ==
    IF i > Len(hunks) THEN [ok |-> TRUE, image |-> image, failed |-> 0]
    ELSE LET pos == find_position(image, hunks[i])
         IN  IF pos < 0 THEN [ok |-> FALSE, image |-> image, failed |-> i]
             ELSE apply_hunks(apply_hunk(image, hunks[i], pos), hunks, i + 1)

diffy_apply(base_image, hunks) ==
    LET r == apply_hunks([k \in 1..Len(base_image) |->
                             [line |-> base_image[k], patched |-> FALSE]],
                         hunks, 1)
    IN  [ok |-> r.ok, failed |-> r.failed,
         new_content |-> [k \in 1..Len(r.image) |-> r.image[k].line]]

\* applier::diff_applier::apply_diff: Ok(new_content) or Err(DiffError)
diff_applier_apply_diff(current_content, diff_content) ==
    LET patch_result == Patch_from_str(diff_content)
        applied == diffy_apply(current_content, patch_result.hunks)
    IN  IF ~patch_result.ok
        THEN [ok |-> FALSE, error |-> <<"parse">>, new_content |-> <<>>]
        ELSE IF ~applied.ok
        THEN [ok |-> FALSE, error |-> <<"apply", applied.failed>>,
              new_content |-> applied.new_content]
        ELSE [ok |-> TRUE, error |-> <<>>, new_content |-> applied.new_content]

\* DiffApplier::apply: read, apply_diff(..)?, write
DiffApplier_apply(fsv, lg, block) ==
    LET current_content == read_file_async_or_default(fsv, block.filename)
        r == diff_applier_apply_diff(current_content, block.content)
    IN  IF r.ok
        THEN [fs |-> write_file_async(fsv, block.filename, r.new_content),
              logs |-> lg, result |-> "Ok", error |-> r.error]
        ELSE [fs |-> fsv, logs |-> lg, result |-> "DiffError", error |-> r.error]

\* logger::log_diff_error: one new, uniquely named artifact in the logs
\* directory holding the DiagnosticInfo
log_diff_error(lg, path, current_content, diff_content, error_message) ==
    Append(lg, [file_path |-> path, error_message |-> error_message,
                current_content |-> current_content])

\* diff_handler::apply_diff: as above, with log_diff_error(..).await? before
\* either error is returned
diff_handler_apply_diff(lg, path, current_content, diff_content) ==
    LET patch_result == Patch_from_str(diff_content)
        applied == diffy_apply(current_content, patch_result.hunks)
    IN  IF ~patch_result.ok
        THEN [ok |-> FALSE, error |-> <<"parse">>, new_content |-> <<>>,
              logs |-> log_diff_error(lg, path, current_content, diff_content,
                                      <<"parse">>)]
        ELSE IF ~applied.ok
        THEN [ok |-> FALSE, error |-> <<"apply", applied.failed>>,
              new_content |-> applied.new_content,
              logs |-> log_diff_error(lg, path, current_content, diff_content,
                                      <<"apply", applied.failed>>)]
        ELSE [ok |-> TRUE, error |-> <<>>, new_content |-> applied.new_content,
              logs |-> lg]

\* ContentApplier::apply_diff with the write moved before the check of the
\* result: the image patched so far reaches the file
ContentApplier_apply_diff_writes_first(fsv, lg, block) ==
    LET current_content == read_to_string_or_default(fsv, block.filename)
        r == diff_handler_apply_diff(lg, block.filename, current_content,
                                     block.content)
    IN  [fs |-> write(fsv, block.filename, r.new_content),
         logs |-> r.logs, result |-> IF r.ok THEN "Ok" ELSE "WriteError",
         error |-> r.error]

\* ContentApplier::apply_diff: read, apply_diff(..) mapped to WriteError,
\* print_diff, write
ContentApplier_apply_diff(fsv, lg, block) ==
    LET current_content == read_to_string_or_default(fsv, block.filename)
        r == diff_handler_apply_diff(lg, block.filename, current_content,
                                     block.content)
    IN  IF r.ok
        THEN [fs |-> write(fsv, block.filename, r.new_content),
              logs |-> r.logs, result |-> "Ok", error |-> r.error]
        ELSE [fs |-> fsv, logs |-> r.logs, result |-> "WriteError",
              error |-> r.error]

\* every diff block targets f1; f2 is a file no call touches
DiffBlocks ==
    [filename : {"f1"}, content : DiffContents, block_type : {UnifiedDiff}]

DiffInit ==
    /\ fs \in {f \in FileSystems(FileImages) : f["f2"] = None}
    /\ logs = <<>> /\ call = NoCall
    /\ ncalls = 0 /\ nfailed = 0 /\ nwrites = 0
    /\ lines = <<>> /\ content = <<>> /\ delimiters = <<>>
    /\ stack = <<>> /\ blocks = <<>> /\ di = 0 /\ opened = <<>>
    /\ CwIdle
    /\ pc = "idle"

\* the call record keeps what the caller sees and the file before the call
DiffCall(applier, block, r) ==
    /\ pc = "idle"
    /\ fs' = r.fs
    /\ logs' = r.logs
    /\ call' = [applier |-> applier, filename |-> block.filename,
                before |-> fs[block.filename], result |-> r.result,
                error |-> r.error]
    /\ ncalls' = ncalls + 1
    /\ nfailed' = nfailed + (IF r.result # "Ok" THEN 1 ELSE 0)
    /\ UNCHANGED <<cwvars, evars, nwrites, pc>>

ApplyDiff ==
    /\ ncalls < MaxCalls
    /\ \E block \in DiffBlocks :
          DiffCall("DiffApplier", block, DiffApplier_apply(fs, logs, block))

ApplyDiffCA ==
    /\ ncalls < MaxCalls
    /\ \E block \in DiffBlocks :
          DiffCall("ContentApplier", block,
                   ContentApplier_apply_diff(fs, logs, block))

DiffNext == ApplyDiff \/ ApplyDiffCA

SpecDiff == DiffInit /\ [][DiffNext]_vars

-----------------------------------------------------------------------------
(* Search-replace blocks.  A block content is a token sequence in which     *)
(* "<<<" stands for the opening marker `<<<+\s*SEARCH\r?\n`, "===" for the  *)
(* separator `===+[^\r\n]*\r?\n` and ">>>" for the closing marker          *)
(* `>>>+\s*REPLACE`.                                                       *)

MaxPairs == 2

\* str::contains
Contains(s, pat) ==
    \E i \in 0..(Len(s) - Len(pat)) : SubSeq(s, i + 1, i + Len(pat)) = pat

\* str::replace: every non-overlapping occurrence, left to right
RECURSIVE Replace(_, _, _)
Replace(s, pat, to) ==
    IF pat = <<>>
    THEN IF s = <<>> THEN to ELSE to \o <<s[1]>> \o Replace(Tail(s), pat, to)
    ELSE IF Len(s) < Len(pat) THEN s
    ELSE IF SubSeq(s, 1, Len(pat)) = pat
    THEN to \o Replace(SubSeq(s, Len(pat) + 1, Len(s)), pat, to)
    ELSE <<s[1]>> \o Replace(Tail(s), pat, to)

\* .replace("\r\n", "\n")
normalize_newlines(s) == Replace(s, <<"\r", "\n">>, <<"\n">>)

\* offset of the first token `tok` at or after offset i, -1 when there is none
find_token(bc, tok, i) ==
    LET S == {j \in i..(Len(bc) - 1) : bc[j + 1] = tok}
    IN  IF S = {} THEN -1 ELSE Min(S)

\* search_replace_re.captures_iter(&block_content): the opening marker, the
\* shortest span up to a separator, the shortest span up to a closing marker
RECURSIVE search_replace_re(_, _)
search_replace_re(bc, from) ==
    LET i == find_token(bc, "<<<", from)
        j == IF i < 0 THEN -1 ELSE find_token(bc, "===", i + 1)
        k == IF j < 0 THEN -1 ELSE find_token(bc, ">>>", j + 1)
    IN  IF k < 0 THEN <<>>
        ELSE <<[search |-> SubSeq(bc, i + 2, j), replace |-> SubSeq(bc, j + 2, k)]>>
             \o search_replace_re(bc, k + 1)

\* the body of the loop with the replace span trimmed in the empty-search case
apply_pair_trimmed(acc, cap) ==
    LET search_content == cap.search
        replace_content == cap.replace
        search_content_without_newline == TrimEnd(search_content)
        replace_content_without_newline == TrimEnd(replace_content)
    IN  IF Trim(search_content) = <<>>
        THEN [content |-> replace_content_without_newline, n |-> acc.n + 1]
        ELSE IF Contains(acc.content, search_content)
        THEN [content |-> Replace(acc.content, search_content, replace_content),
              n |-> acc.n + 1]
        ELSE IF Contains(acc.content, search_content_without_newline)
        THEN [content |-> Replace(acc.content, search_content_without_newline,
                                  replace_content_without_newline),
              n |-> acc.n + 1]
        ELSE acc

\* str::replacen(pat, to, 1): the first occurrence only
RECURSIVE ReplaceFirst(_, _, _)
ReplaceFirst(s, pat, to) ==
    IF Len(s) < Len(pat) THEN s
    ELSE IF SubSeq(s, 1, Len(pat)) = pat
    THEN to \o SubSeq(s, Len(pat) + 1, Len(s))
    ELSE <<s[1]>> \o ReplaceFirst(Tail(s), pat, to)

\* the body of the loop with an empty search span adding its replace span to
\* the running content instead of replacing it
apply_pair_empty_search_appends(acc, cap) ==
    LET search_content == cap.search
        replace_content == cap.replace
        search_content_without_newline == TrimEnd(search_content)
        replace_content_without_newline == TrimEnd(replace_content)
    IN  IF Trim(search_content) = <<>>
        THEN [content |-> acc.content \o replace_content, n |-> acc.n + 1]
        ELSE IF Contains(acc.content, search_content)
        THEN [content |-> Replace(acc.content, search_content, replace_content),
              n |-> acc.n + 1]
        ELSE IF Contains(acc.content, search_content_without_newline)
        THEN [content |-> Replace(acc.content, search_content_without_newline,
                                  replace_content_without_newline),
              n |-> acc.n + 1]
        ELSE acc

\* the body of the loop with an exact match replacing the first occurrence
\* only
apply_pair_first_only(acc, cap) ==
    LET search_content == cap.search
        replace_content == cap.replace
        search_content_without_newline == TrimEnd(search_content)
        replace_content_without_newline == TrimEnd(replace_content)
    IN  IF Trim(search_content) = <<>>
        THEN [content |-> replace_content, n |-> acc.n + 1]
        ELSE IF Contains(acc.content, search_content)
        THEN [content |-> ReplaceFirst(acc.content, search_content, replace_content),
              n |-> acc.n + 1]
        ELSE IF Contains(acc.content, search_content_without_newline)
        THEN [content |-> Replace(acc.content, search_content_without_newline,
                                  replace_content_without_newline),
              n |-> acc.n + 1]
        ELSE acc

\* the body of the loop with the fallback inserting the replace span as
\* captured, its trailing whitespace kept
apply_pair_fallback_untrimmed(acc, cap) ==
    LET search_content == cap.search
        replace_content == cap.replace
        search_content_without_newline == TrimEnd(search_content)
    IN  IF Trim(search_content) = <<>>
        THEN [content |-> replace_content, n |-> acc.n + 1]
        ELSE IF Contains(acc.content, search_content)
        THEN [content |-> Replace(acc.content, search_content, replace_content),
              n |-> acc.n + 1]
        ELSE IF Contains(acc.content, search_content_without_newline)
        THEN [content |-> Replace(acc.content, search_content_without_newline,
                                  replace_content),
              n |-> acc.n + 1]
        ELSE acc

\* the body of the loop over the captures, on
\* (current_content, successful_replacements)
apply_pair(acc, cap) ==
    LET search_content == cap.search
        replace_content == cap.replace
        search_content_without_newline == TrimEnd(search_content)
        replace_content_without_newline == TrimEnd(replace_content)
    IN  IF Trim(search_content) = <<>>
        THEN [content |-> replace_content, n |-> acc.n + 1]
        ELSE IF Contains(acc.content, search_content)
        THEN [content |-> Replace(acc.content, search_content, replace_content),
              n |-> acc.n + 1]
        ELSE IF Contains(acc.content, search_content_without_newline)
        THEN [content |-> Replace(acc.content, search_content_without_newline,
                                  replace_content_without_newline),
              n |-> acc.n + 1]
        ELSE acc

\* the loop with every pair matched against the content of the file as read
\* instead of the running content, the last pair deciding the content
apply_pairs_on_original(acc, caps) ==
    IF caps = <<>> THEN acc
    ELSE LET each == [k \in 1..Len(caps) |-> apply_pair(acc, caps[k])]
             n == Cardinality({k \in 1..Len(caps) : each[k].n > acc.n})
         IN  [content |-> each[Len(caps)].content, n |-> acc.n + n]

\* the loop: the captures in block order on one running content
RECURSIVE apply_pairs(_, _)
apply_pairs(acc, caps) ==
    IF caps = <<>> THEN acc
    ELSE apply_pairs(apply_pair(acc, Head(caps)), Tail(caps))

\* print_diff(file, old, new): the patch from old to new is logged
print_diff(old, new) == Some([old |-> old, new |-> new])

\* SearchReplaceApplier::apply with the pairs matched against the content as
\* read, without the normalisation of its line ends
SearchReplaceApplier_apply_unnormalized(fsv, block) ==
    LET original_content == read_file_async_or_default(fsv, block.filename)
        block_content == normalize_newlines(block.content)
        done == apply_pairs([content |-> original_content, n |-> 0],
                            search_replace_re(block_content, 0))
        removed == remove_file_async(fsv, block.filename)
    IN  IF done.n = 0
        THEN [fs |-> fsv, result |-> "ContentApplicationError",
              current_content |-> done.content, successful_replacements |-> done.n,
              print_diff |-> None]
        ELSE IF Trim(done.content) = <<>>
        THEN [fs |-> removed.fs,
              result |-> IF removed.ok THEN "Ok" ELSE "IoError",
              current_content |-> done.content, successful_replacements |-> done.n,
              print_diff |-> IF removed.ok THEN print_diff(original_content, done.content) ELSE None]
        ELSE [fs |-> write_file_async(fsv, block.filename, done.content),
              result |-> "Ok",
              current_content |-> done.content, successful_replacements |-> done.n,
              print_diff |-> print_diff(original_content, done.content)]

\* SearchReplaceApplier::apply
SearchReplaceApplier_apply(fsv, block) ==
    LET original_content == read_file_async_or_default(fsv, block.filename)
        current_content == normalize_newlines(original_content)
        block_content == normalize_newlines(block.content)
        done == apply_pairs([content |-> current_content, n |-> 0],
                            search_replace_re(block_content, 0))
        removed == remove_file_async(fsv, block.filename)
    IN  IF done.n = 0
        THEN [fs |-> fsv, result |-> "ContentApplicationError",
              current_content |-> done.content, successful_replacements |-> done.n,
              print_diff |-> None]
        ELSE IF Trim(done.content) = <<>>
        THEN [fs |-> removed.fs,
              result |-> IF removed.ok THEN "Ok" ELSE "IoError",
              current_content |-> done.content, successful_replacements |-> done.n,
              print_diff |-> IF removed.ok THEN print_diff(original_content, done.content) ELSE None]
        ELSE [fs |-> write_file_async(fsv, block.filename, done.content),
              result |-> "Ok",
              current_content |-> done.content, successful_replacements |-> done.n,
              print_diff |-> print_diff(original_content, done.content)]

\* ContentApplier::apply_search_replace without the early return on zero
\* successful replacements: the error is returned after the file operation
ContentApplier_apply_search_replace_no_early_return(fsv, block) ==
    LET original_content == read_to_string_or_default(fsv, block.filename)
        current_content == normalize_newlines(original_content)
        block_content == normalize_newlines(block.content)
        done == apply_pairs([content |-> current_content, n |-> 0],
                            search_replace_re(block_content, 0))
        removed == remove_file(fsv, block.filename)
    IN  IF Trim(done.content) = <<>>
        THEN [fs |-> removed.fs,
              result |-> IF removed.ok /\ done.n > 0 THEN "Ok" ELSE "WriteError",
              current_content |-> done.content, successful_replacements |-> done.n,
              print_diff |-> IF removed.ok /\ done.n > 0
                            THEN print_diff(original_content, done.content) ELSE None]
        ELSE [fs |-> write(fsv, block.filename, done.content),
              result |-> IF done.n = 0 THEN "WriteError" ELSE "Ok",
              current_content |-> done.content, successful_replacements |-> done.n,
              print_diff |-> IF done.n = 0 THEN None
                            ELSE print_diff(original_content, done.content)]

\* ContentApplier::apply_search_replace: the same steps on tokio::fs, every
\* error mapped to WriteError
ContentApplier_apply_search_replace(fsv, block) ==
    LET original_content == read_to_string_or_default(fsv, block.filename)
        current_content == normalize_newlines(original_content)
        block_content == normalize_newlines(block.content)
        done == apply_pairs([content |-> current_content, n |-> 0],
                            search_replace_re(block_content, 0))
        removed == remove_file(fsv, block.filename)
    IN  IF done.n = 0
        THEN [fs |-> fsv, result |-> "WriteError",
              current_content |-> done.content, successful_replacements |-> done.n,
              print_diff |-> None]
        ELSE IF Trim(done.content) = <<>>
        THEN [fs |-> removed.fs,
              result |-> IF removed.ok THEN "Ok" ELSE "WriteError",
              current_content |-> done.content, successful_replacements |-> done.n,
              print_diff |-> IF removed.ok THEN print_diff(original_content, done.content) ELSE None]
        ELSE [fs |-> write(fsv, block.filename, done.content),
              result |-> "Ok",
              current_content |-> done.content, successful_replacements |-> done.n,
              print_diff |-> print_diff(original_content, done.content)]

Spans == {<<>>, <<"\n">>, <<"a">>, <<"b">>, <<"a", "\n">>}

\* the pieces a block is made of: well-formed pairs, a pair without its
\* separator, a pair without its closing marker, plain text, a pair whose
\* spans end with CR LF
Segments ==
    {<<"<<<">> \o s \o <<"===">> \o r \o <<">>>">> : s \in Spans, r \in Spans}
    \cup {<<"<<<", "a", ">>>">>, <<"<<<", "a", "===", "b">>, <<"b">>,
          <<"<<<", "a", "\r", "\n", "===", "b", "\r", "\n", ">>>">>}

RECURSIVE ConcatLines(_)
ConcatLines(ls) ==
    IF ls = <<>> THEN <<>> ELSE Head(ls) \o <<"\n">> \o ConcatLines(Tail(ls))

\* the contents the target file starts with
SRContents ==
    {<<>>, <<"\n">>, <<"a">>, <<"b">>, <<"a", "\n">>, <<"a", "b">>, <<"b", "\n", "a">>,
     <<"a", "\r", "\n", "b">>}

SRBlocks ==
    [filename : {"f1"},
     content : {ConcatLines(g) : g \in SeqsUpTo(Segments, MaxPairs)},
     block_type : {SearchReplaceBlock}]

SRInit ==
    /\ fs \in {f \in FileSystems(SRContents) : f["f2"] = None}
    /\ logs = <<>> /\ call = NoCall
    /\ ncalls = 0 /\ nfailed = 0 /\ nwrites = 0
    /\ lines = <<>> /\ content = <<>> /\ delimiters = <<>>
    /\ stack = <<>> /\ blocks = <<>> /\ di = 0 /\ opened = <<>>
    /\ CwIdle
    /\ pc = "idle"

\* one apply call on the file system of Init; the call record keeps the
\* block, the pairs captured in it, the file system before the call and what
\* the call returned
SRCall(applier, block, r) ==
    /\ pc = "idle"
    /\ fs' = r.fs
    /\ call' = [applier |-> applier, block |-> block,
                before |-> fs, result |-> r.result,
                current_content |-> r.current_content,
                successful_replacements |-> r.successful_replacements,
                print_diff |-> r.print_diff,
                pairs |-> search_replace_re(normalize_newlines(block.content), 0)]
    /\ ncalls' = ncalls + 1
    /\ pc' = "applied"
    /\ UNCHANGED <<cwvars, evars, logs, nfailed, nwrites>>

ApplySearchReplace ==
    /\ pc = "idle"
    /\ \E block \in SRBlocks :
          SRCall("SearchReplaceApplier", block, SearchReplaceApplier_apply(fs, block))

ApplySearchReplaceCA ==
    /\ pc = "idle"
    /\ \E block \in SRBlocks :
          SRCall("ContentApplier", block,
                 ContentApplier_apply_search_replace(fs, block))

SRNext == ApplySearchReplace \/ ApplySearchReplaceCA

SpecSearchReplace == SRInit /\ [][SRNext]_vars

-----------------------------------------------------------------------------
(* ClipboardWatcher::process_standard: the blocks the extractor returned,   *)
(* applied one after the other by the applier their block type selects.    *)
(* Diff blocks target f1, a file of lines; full-content and search-replace *)
(* blocks target f2.  `blocks` is the extracted list, `di` the number of   *)
(* blocks the loop has taken, `ncalls` the number of apply calls.           *)

MaxBlocks == 2

\* what the extracted blocks are drawn from: a block type with a text (full
\* content, search-replace pairs) or with the hunks of a one-hunk diff
ProcessInputs ==
    [block_type : {FullContent}, text : {<<"a">>}, hunks : {<<>>}]
    \cup [block_type : {UnifiedDiff}, text : {<<>>},
          hunks : {d \in DiffContents : Len(d) = 1}]
    \cup [block_type : {SearchReplaceBlock},
          text : {ConcatLines(<<g>>) :
                     g \in {<<"<<<", "a", "===", "b", ">>>">>,
                            <<"<<<", "b", "===", "a", ">>>">>}},
          hunks : {<<>>}]

ProcessBlock(in) ==
    [filename |-> IF in.block_type = UnifiedDiff THEN "f1" ELSE "f2",
     content |-> IF in.block_type = UnifiedDiff THEN in.hunks ELSE in.text,
     block_type |-> in.block_type]

\* the applier process_standard boxes for the block, and its apply; `wrote`
\* tells whether a full-content applier wrote the file
applier_apply(fsv, lg, block) ==
    CASE block.block_type = FullContent ->
           [fs |-> FullContentApplier_apply(fsv, block).fs, logs |-> lg,
            result |-> FullContentApplier_apply(fsv, block).result,
            wrote |-> FullContentApplier_apply(fsv, block).wrote]
      [] block.block_type = UnifiedDiff ->
           [fs |-> DiffApplier_apply(fsv, lg, block).fs,
            logs |-> DiffApplier_apply(fsv, lg, block).logs,
            result |-> DiffApplier_apply(fsv, lg, block).result,
            wrote |-> FALSE]
      [] block.block_type = SearchReplaceBlock ->
           [fs |-> SearchReplaceApplier_apply(fsv, block).fs, logs |-> lg,
            result |-> SearchReplaceApplier_apply(fsv, block).result,
            wrote |-> FALSE]

\* the state when process_standard has received Ok(blocks) from the extractor
ProcessInit ==
    /\ \E ins \in SeqsUpTo(ProcessInputs, MaxBlocks) :
          blocks = [k \in 1..Len(ins) |-> ProcessBlock(ins[k])]
    /\ fs \in [Files -> {Some(<<"a">>), Some(<<"b">>)}]
    /\ logs = <<>> /\ call = NoCall
    /\ ncalls = 0 /\ nfailed = 0 /\ nwrites = 0
    /\ lines = <<>> /\ content = <<>> /\ delimiters = <<>>
    /\ stack = <<>> /\ di = 0 /\ opened = <<>>
    /\ CwIdle
    /\ pc = "for_block"

ProcessCall(block, r) ==
    /\ fs' = r.fs
    /\ logs' = r.logs
    /\ call' = [applier |-> "process_standard", block |-> block,
                before |-> fs, result |-> r.result]
    /\ ncalls' = ncalls + 1
    /\ nwrites' = nwrites + (IF r.wrote THEN 1 ELSE 0)
    /\ di' = di + 1

\* one turn of the loop whose apply returns Ok: the file is recorded and the
\* loop goes on
BlockApplied ==
    /\ pc = "for_block" /\ di < Len(blocks)
    /\ applier_apply(fs, logs, blocks[di + 1]).result = "Ok"
    /\ ProcessCall(blocks[di + 1], applier_apply(fs, logs, blocks[di + 1]))
    /\ UNCHANGED <<cwvars, lines, content, delimiters, stack, blocks, opened, nfailed, pc>>

\* one turn of the loop whose apply returns Err: the error is logged and
\* process_standard returns Err(ContentApplicationError)
BlockFailed ==
    /\ pc = "for_block" /\ di < Len(blocks)
    /\ applier_apply(fs, logs, blocks[di + 1]).result # "Ok"
    /\ ProcessCall(blocks[di + 1], applier_apply(fs, logs, blocks[di + 1]))
    /\ nfailed' = nfailed + 1
    /\ pc' = "returned_err"
    /\ UNCHANGED <<cwvars, lines, content, delimiters, stack, blocks, opened>>

\* the list is exhausted: process_standard returns Ok(())
ProcessReturn ==
    /\ pc = "for_block" /\ di = Len(blocks)
    /\ pc' = "returned_ok"
    /\ UNCHANGED <<cwvars, evars, avars>>

ProcessNext == BlockApplied \/ BlockFailed \/ ProcessReturn

SpecProcess == ProcessInit /\ [][ProcessNext]_vars

-----------------------------------------------------------------------------
(* Concurrent apply calls.  A caller spawns one ContentApplier::apply per   *)
(* block (tokio::spawn) and every await of a call is a point where another *)
(* call may run.  A call reads its file, computes what to do and then      *)
(* writes or removes the file.  tokio::fs::write runs std::fs::write: the  *)
(* file is created or truncated, then the content is written from offset 0 *)
(* through the descriptor of the call.  In this part a token of a file is  *)
(* one line, so that diff and search-replace blocks read the same files.   *)

Tasks == {1, 2}

\* what the blocks of the calls are drawn from, with their target file
TaskInputs ==
    [block_type : {FullContent}, text : {<<"a">>, <<"b", "b">>},
     hunks : {<<>>}, filename : Files]
    \cup [block_type : {UnifiedDiff}, text : {<<>>},
          hunks : {d \in DiffContents : Len(d) = 1 /\ d[1].start = 1},
          filename : Files]
    \cup [block_type : {SearchReplaceBlock},
          text : {ConcatLines(<<g>>) :
                     g \in {<<"<<<", "a", "===", "b", "b", ">>>">>,
                            <<"<<<", "b", "===", ">>>">>,
                            <<"<<<", "===", "a", ">>>">>}},
          hunks : {<<>>}, filename : Files]

TaskBlock(in) ==
    [filename |-> in.filename,
     content |-> IF in.block_type = UnifiedDiff THEN in.hunks ELSE in.text,
     block_type |-> in.block_type]

\* ContentApplier::apply run without interruption: the dispatch on the block
\* type.  file_op is the file operation the call ends with and new_content
\* the content it computed from what it read.
ContentApplier_apply(fsv, lg, block) ==
    CASE block.block_type = FullContent ->
           The({[fs |-> r.fs, logs |-> lg, result |-> r.result,
                 file_op |-> IF r.wrote THEN "write" ELSE "none",
                 new_content |-> block.content] :
                r \in {ContentApplier_apply_full_content(fsv, block)}})
      [] block.block_type = UnifiedDiff ->
           The({[fs |-> r.fs, logs |-> r.logs, result |-> r.result,
                 file_op |-> IF r.result = "Ok" THEN "write" ELSE "none",
                 new_content |-> IF r.result = "Ok"
                                 THEN r.fs[block.filename][1] ELSE <<>>] :
                r \in {ContentApplier_apply_diff(fsv, lg, block)}})
      [] block.block_type = SearchReplaceBlock ->
           The({[fs |-> r.fs, logs |-> lg, result |-> r.result,
                 file_op |-> IF r.successful_replacements = 0 THEN "none"
                             ELSE IF Trim(r.current_content) = <<>> THEN "remove"
                             ELSE "write",
                 new_content |-> r.current_content] :
                r \in {ContentApplier_apply_search_replace(fsv, block)}})

\* the calls are spawned on the files of Init; `call` keeps these files and,
\* per file, the call whose write or removal came last
ConcurrentInit ==
    /\ \E ins \in [Tasks -> TaskInputs] :
          tasks = [t \in Tasks |->
                     [block |-> TaskBlock(ins[t]), pc |-> "spawned",
                      file_op |-> "none", new_content |-> <<>>,
                      result |-> "pending", orphan |-> FALSE,
                      overlapped |-> FALSE]]
    /\ fs \in FileSystems({<<"a">>, <<"b">>, <<"a", "b">>})
    /\ call = [applier |-> "spawned", before |-> fs,
               last_writer |-> [f \in Files |-> 0]]
    /\ logs = <<>> /\ ncalls = 0 /\ nfailed = 0 /\ nwrites = 0
    /\ lines = <<>> /\ content = <<>> /\ delimiters = <<>>
    /\ stack = <<>> /\ blocks = <<>> /\ di = 0 /\ opened = <<>>
    /\ clipboard = <<>> /\ last_content = <<>> /\ ticked = <<>>
    /\ pc = "concurrent"

\* another call is between its read and its return
Overlaps(t) ==
    \E u \in Tasks \ {t} : tasks[u].pc \in {"create", "write_all", "remove"}

TaskFile(t) == tasks[t].block.filename

\* read_to_string(&path).await and the computation up to the next await:
\* the call returns here when it has nothing to write
TaskRead(t) ==
    /\ pc = "concurrent" /\ tasks[t].pc = "spawned"
    /\ \E r \in {ContentApplier_apply(fs, logs, tasks[t].block)} :
          /\ logs' = r.logs
          /\ tasks' = [tasks EXCEPT ![t] =
                          [@ EXCEPT !.pc = CASE r.file_op = "none" -> "returned"
                                             [] r.file_op = "write" -> "create"
                                             [] r.file_op = "remove" -> "remove",
                                    !.file_op = r.file_op,
                                    !.new_content = r.new_content,
                                    !.result = IF r.file_op = "none" THEN r.result
                                               ELSE "pending",
                                    !.overlapped = @ \/ Overlaps(t)]]
    /\ UNCHANGED <<evars, fs, call, ncalls, nfailed, nwrites,
                   clipboard, last_content, ticked, pc>>

\* std::fs::write, File::create: the file is created, or truncated when it
\* exists
TaskCreate(t) ==
    /\ pc = "concurrent" /\ tasks[t].pc = "create"
    /\ fs' = write(fs, TaskFile(t), <<>>)
    /\ tasks' = [tasks EXCEPT ![t] =
                    [@ EXCEPT !.pc = "write_all", !.orphan = FALSE,
                              !.overlapped = @ \/ Overlaps(t)]]
    /\ UNCHANGED <<evars, logs, call, ncalls, nfailed, nwrites,
                   clipboard, last_content, ticked, pc>>

\* the content written at offset 0 over data: what lies beyond it stays
Overwrite(data, c) == c \o SubSeq(data, Len(c) + 1, Len(data))

\* TaskWriteAll with the content taken from a buffer the calls share: it
\* holds the content of another call that is between its read and its
\* return, when there is one
TaskWriteAll_shared_buffer(t) ==
    /\ pc = "concurrent" /\ tasks[t].pc = "write_all"
    /\ \E c \in {IF \E u \in Tasks \ {t} : tasks[u].pc \in {"create", "write_all"}
                  THEN tasks[CHOOSE u \in Tasks \ {t} :
                                tasks[u].pc \in {"create", "write_all"}].new_content
                  ELSE tasks[t].new_content} :
          fs' = IF tasks[t].orphan THEN fs
                ELSE [fs EXCEPT ![TaskFile(t)] = Some(Overwrite(@[1], c))]
    /\ tasks' = [tasks EXCEPT ![t] =
                    [@ EXCEPT !.pc = "returned", !.result = "Ok",
                              !.overlapped = @ \/ Overlaps(t)]]
    /\ call' = [call EXCEPT !.last_writer[TaskFile(t)] = t]
    /\ UNCHANGED <<evars, logs, ncalls, nfailed, nwrites,
                   clipboard, last_content, ticked, pc>>

\* std::fs::write, write_all: the content goes through the descriptor to
\* offset 0 of the file the call opened, which is no longer the file of the
\* path when that one was removed since; the call returns Ok
TaskWriteAll(t) ==
    /\ pc = "concurrent" /\ tasks[t].pc = "write_all"
    /\ fs' = IF tasks[t].orphan THEN fs
             ELSE [fs EXCEPT ![TaskFile(t)] =
                                Some(Overwrite(@[1], tasks[t].new_content))]
    /\ tasks' = [tasks EXCEPT ![t] =
                    [@ EXCEPT !.pc = "returned", !.result = "Ok",
                              !.overlapped = @ \/ Overlaps(t)]]
    /\ call' = [call EXCEPT !.last_writer[TaskFile(t)] = t]
    /\ UNCHANGED <<evars, logs, ncalls, nfailed, nwrites,
                   clipboard, last_content, ticked, pc>>

\* remove_file(&path).await: an error when the file is not there; the
\* descriptors other calls hold on the file become orphans
TaskRemove(t) ==
    /\ pc = "concurrent" /\ tasks[t].pc = "remove"
    /\ fs' = remove_file(fs, TaskFile(t)).fs
    /\ tasks' = [u \in Tasks |->
                    IF u = t
                    THEN [tasks[t] EXCEPT
                            !.pc = "returned",
                            !.result = IF remove_file(fs, TaskFile(t)).ok
                                       THEN "Ok" ELSE "WriteError",
                            !.overlapped = @ \/ Overlaps(t)]
                    ELSE IF /\ TaskFile(u) = TaskFile(t)
                            /\ tasks[u].pc = "write_all"
                            /\ remove_file(fs, TaskFile(t)).ok
                    THEN [tasks[u] EXCEPT !.orphan = TRUE]
                    ELSE tasks[u]]
    /\ call' = [call EXCEPT !.last_writer[TaskFile(t)] = t]
    /\ UNCHANGED <<evars, logs, ncalls, nfailed, nwrites,
                   clipboard, last_content, ticked, pc>>

ConcurrentNext ==
    \E t \in Tasks :
       TaskRead(t) \/ TaskCreate(t) \/ TaskWriteAll(t) \/ TaskRemove(t)

SpecConcurrent == ConcurrentInit /\ [][ConcurrentNext]_vars

-----------------------------------------------------------------------------
(* ClipboardWatcher::run in watch mode (one_shot = false).  The clipboard   *)
(* is changed by the user at any time; the watcher reads it once at        *)
(* start-up and once per tick.  What process_standard or process_with_ai   *)
(* does with a content is kept as its result only.  `ticked` records the   *)
(* start-up read and every tick: the content read and what became of it.   *)

MaxTicks == 3

\* WatcherConfig::default().first_line_identifier, one lexeme
first_line_identifier == <<"# Relevant Code">>

\* the texts the user copies: nothing, a text, a text that starts with the
\* identifier, a text that holds it further down
Clips ==
    {<<>>, <<"x">>,
     <<"# Relevant Code", "\n", "x">>, <<"x", "\n", "# Relevant Code">>}

WatchInit ==
    /\ clipboard \in Clips
    /\ last_content = <<>> /\ ticked = <<>> /\ tasks = <<>>
    /\ fs = [f \in Files |-> None] /\ logs = <<>> /\ call = NoCall
    /\ ncalls = 0 /\ nfailed = 0 /\ nwrites = 0
    /\ lines = <<>> /\ content = <<>> /\ delimiters = <<>>
    /\ stack = <<>> /\ blocks = <<>> /\ di = 0 /\ opened = <<>>
    /\ pc = "run"

\* the user copies another text
Copy ==
    /\ pc \in {"run", "watching"}
    /\ \E c \in Clips \ {clipboard} : clipboard' = c
    /\ UNCHANGED <<evars, avars, tasks, last_content, ticked, pc>>

\* clipboard.get_text() fails at start-up: run returns ClipboardReadError
RunReadError ==
    /\ pc = "run"
    /\ pc' = "error"
    /\ UNCHANGED <<evars, avars, cwvars>>

\* the clipboard is empty at start-up: run returns ClipboardReadError
RunEmpty ==
    /\ pc = "run" /\ clipboard = <<>>
    /\ pc' = "error"
    /\ UNCHANGED <<evars, avars, cwvars>>

\* let mut last_content = content.clone(), and the watch loop is entered
RunWatch ==
    /\ pc = "run" /\ clipboard # <<>>
    /\ last_content' = clipboard
    /\ ticked' = <<[content |-> clipboard, outcome |-> "startup"]>>
    /\ pc' = "watching"
    /\ UNCHANGED <<evars, avars, tasks, clipboard>>

AtTick == pc = "watching" /\ Len(ticked) < MaxTicks + 1

Ticked(outcome) ==
    ticked' = Append(ticked, [content |-> clipboard, outcome |-> outcome])

\* a tick whose clipboard.get_text() fails: the error is logged
TickReadError ==
    /\ AtTick
    /\ Ticked("read_error")
    /\ UNCHANGED <<evars, avars, tasks, clipboard, last_content, pc>>

\* a tick whose content starts with the identifier: `continue`
TickIgnored ==
    /\ AtTick /\ starts_with(clipboard, 0, first_line_identifier)
    /\ Ticked("ignored")
    /\ UNCHANGED <<evars, avars, tasks, clipboard, last_content, pc>>

\* a tick whose content is last_content: nothing is done
TickUnchanged ==
    /\ AtTick /\ ~starts_with(clipboard, 0, first_line_identifier)
    /\ clipboard = last_content
    /\ Ticked("unchanged")
    /\ UNCHANGED <<evars, avars, tasks, clipboard, last_content, pc>>

\* TickProcessed with last_content set only when the processing succeeded
TickProcessed_failed_keeps_last ==
    /\ AtTick /\ ~starts_with(clipboard, 0, first_line_identifier)
    /\ clipboard # last_content
    /\ \E result \in {"processed_ok", "processed_err"} :
          /\ Ticked(result)
          /\ last_content' = IF result = "processed_ok" THEN clipboard
                              ELSE last_content
    /\ UNCHANGED <<evars, avars, tasks, clipboard, pc>>

\* a tick with a new content: it is processed, an error of the processing
\* is logged, and last_content = content
TickProcessed ==
    /\ AtTick /\ ~starts_with(clipboard, 0, first_line_identifier)
    /\ clipboard # last_content
    /\ \E result \in {"processed_ok", "processed_err"} : Ticked(result)
    /\ last_content' = clipboard
    /\ UNCHANGED <<evars, avars, tasks, clipboard, pc>>

\* signal::ctrl_c(): the loop is left and run returns Ok
CtrlC ==
    /\ pc = "watching"
    /\ pc' = "stopped"
    /\ UNCHANGED <<evars, avars, cwvars>>

WatchNext ==
    \/ Copy
    \/ RunReadError
    \/ RunEmpty
    \/ RunWatch
    \/ TickReadError
    \/ TickIgnored
    \/ TickUnchanged
    \/ TickProcessed
    \/ CtrlC

SpecWatch == WatchInit /\ [][WatchNext]_vars

-----------------------------------------------------------------------------
(* The fences of the input, read off its lines: what the claims about       *)
(* extraction call a fence, a nested fence, an unclosed fence, a label.    *)

IsOpenLine(l) == Len(l) >= 2 /\ IsTick(l[1]) /\ \A k \in 2..Len(l) : IsWord(l[k])
IsCloseLine(l) == l = <<"<ticks>">>
IsFenceLine(l) == l # <<>> /\ \E k \in 1..Len(l) : IsTick(l[k])
IsDirectiveLine(l) == Len(l) >= 3 /\ l[1] = "//" /\ l[2] = "filename:"
IsHeadingLine(l) == Len(l) >= 2 /\ l[1] = "#"
DirectiveName(l) == Trim(SubSeq(l, 3, Len(l)))

\* the indices of the fence-open lines still open after line i
RECURSIVE OpenAfter(_, _)
OpenAfter(ls, i) ==
    IF i = 0 THEN <<>>
    ELSE LET st == OpenAfter(ls, i - 1)
         IN  IF IsOpenLine(ls[i]) THEN Append(st, i)
             ELSE IF IsCloseLine(ls[i]) /\ st # <<>>
             THEN SubSeq(st, 1, Len(st) - 1)
             ELSE st

\* line j closes the fence opened by line i
Closes(ls, i, j) ==
    /\ i < j /\ IsCloseLine(ls[j])
    /\ OpenAfter(ls, j - 1) # <<>>
    /\ OpenAfter(ls, j - 1)[Len(OpenAfter(ls, j - 1))] = i

Fences(ls) == {p \in (1..Len(ls)) \X (1..Len(ls)) : Closes(ls, p[1], p[2])}
Unclosed(ls) == {OpenAfter(ls, Len(ls))[k] : k \in 1..Len(OpenAfter(ls, Len(ls)))}

Inside(p, q) == q[1] < p[1] /\ p[2] < q[2]
\* a fence that no other fence of the text encloses
Outermost(ls, p) == p \in Fences(ls) /\ \A q \in Fences(ls) : ~Inside(p, q)
\* a fence opened while no fence-open line is pending
TopLevel(ls, p) == p \in Fences(ls) /\ OpenAfter(ls, p[1] - 1) = <<>>

LabeledByDirective(ls, p) == IsDirectiveLine(ls[p[1] + 1])
LabeledByHeading(ls, p) == p[1] > 1 /\ IsHeadingLine(ls[p[1] - 1])
Labeled(ls, p) == LabeledByDirective(ls, p) \/ LabeledByHeading(ls, p)

\* the lines i..j of the text, as they stand in the text
LinesText(ls, i, j) == ConcatLines(SubSeq(ls, i, j))

Terminal == pc \in {"done", "panic", "error"}

\* the labeled top-level fences that hold a nested fence
NestingFences ==
    {p \in Fences(lines) :
        /\ TopLevel(lines, p) /\ Labeled(lines, p)
        /\ \E q \in Fences(lines) : Inside(q, p)}

\* C1: when the text holds a fence nested inside a labeled top-level fence,
\* extract_blocks returns, with exactly one block per labeled top-level fence
\* (none for the inner markers), and the block of the outer fence contains
\* the lines of every inner fence verbatim.
C1_NestedOneBlock ==
    (Terminal /\ NestingFences # {}) =>
        /\ pc = "done"
        /\ Len(blocks) =
             Cardinality({p \in Fences(lines) :
                             TopLevel(lines, p) /\ Labeled(lines, p)})
        /\ \A p \in NestingFences :
             \E k \in 1..Len(blocks) :
                \A q \in Fences(lines) :
                   Inside(q, p) =>
                      Contains(blocks[k].content, LinesText(lines, q[1], q[2]))

\* C2: when the text holds an unclosed fence and extract_blocks returns, it
\* has emitted one block for every closed, labeled fence that no closed fence
\* encloses, wherever the unclosed fence-open line stands, and none for the
\* unclosed fence.
C2_UnclosedOthersEmitted ==
    (pc = "done" /\ Unclosed(lines) # {}) =>
        Len(blocks) =
            Cardinality({p \in Fences(lines) :
                            Outermost(lines, p) /\ LabeledByDirective(lines, p)})

\* the text is one fence, its first body line a directive, no other fence
\* line anywhere: lines before it, the open line, the directive, the body B,
\* the close line, lines after it
SingleDirectiveFence(o, c) ==
    /\ o + 1 < c /\ c <= Len(lines)
    /\ IsOpenLine(lines[o]) /\ IsDirectiveLine(lines[o + 1]) /\ IsCloseLine(lines[c])
    /\ \A k \in (1..Len(lines)) \ {o, c} : ~IsFenceLine(lines[k])

\* C3: for a text with a single top-level fence whose first body line is a
\* filename directive naming F and whose remaining body is B, extract_blocks
\* returns exactly one block: filename F, kind FullContent, content B.
C3_DirectiveBodyExact ==
    \A o, c \in 1..Len(lines) :
        (Terminal /\ SingleDirectiveFence(o, c)) =>
            /\ pc = "done"
            /\ blocks = << [filename |-> DirectiveName(lines[o + 1]),
                            content |-> LinesText(lines, o + 2, c - 1),
                            block_type |-> FullContent] >>

-----------------------------------------------------------------------------
(* Unified diffs: what a failing call leaves behind.                        *)

DiffFailed == call.applier # "none" /\ call.error # <<>>

\* C4: a diff apply call whose block fails to parse or whose hunks fail to
\* apply returns an error, and the target file is what it was before the
\* call: absent if it was absent, the same lines if it existed.
C4_NoPartialApplication ==
    DiffFailed => /\ call.result # "Ok"
                  /\ fs[call.filename] = call.before

\* a call failed at its second hunk, after the first hunk had matched and
\* changed the private image, and the existing file kept its lines
C4_SecondHunkFailed ==
    /\ call.applier # "none"
    /\ call.error = <<"apply", 2>>
    /\ call.before # None
    /\ fs[call.filename] = call.before

\* a call failed on a diff that does not parse
C4_ParseFailed ==
    /\ call.applier # "none"
    /\ call.error = <<"parse">>
    /\ fs[call.filename] = call.before

\* C5: after any sequence of diff apply calls, the logs directory holds as
\* many diagnostic artifacts as there were failing calls.
C5_OneDiagnosticPerFailure == Len(logs) = nfailed

-----------------------------------------------------------------------------
(* Search-replace: the pairs of the block of the call and the content the   *)
(* call started from.                                                      *)

Applied == pc = "applied"
CallPairs == call.pairs
CallBefore == call.before[call.block.filename]
CallContent0 ==
    normalize_newlines(IF CallBefore = None THEN <<>> ELSE CallBefore[1])

\* the pair cannot succeed on content c: its search span is not blank and
\* neither the span nor the span without its trailing whitespace occurs in c
CannotMatch(c, cap) ==
    /\ Trim(cap.search) # <<>>
    /\ ~Contains(c, cap.search)
    /\ ~Contains(c, TrimEnd(cap.search))

NoSuccessfulReplacements ==
    \/ call.applier = "SearchReplaceApplier" /\ call.result = "ContentApplicationError"
    \/ call.applier = "ContentApplier" /\ call.result = "WriteError"

\* C6: when no pair of the block can succeed on the file (the block has no
\* well-formed pair, or every search span is absent from the file), apply
\* fails with the zero-replacements error and the file system is what it was:
\* the file not written, not deleted, not created.
C6_NoSuccessFileUnchanged ==
    (Applied /\ \A k \in 1..Len(CallPairs) : CannotMatch(CallContent0, CallPairs[k]))
        => NoSuccessfulReplacements /\ fs = call.before

\* every pair of a non-empty list of pairs missed, and the absent file is
\* still absent
C6_AllPairsMissedAbsent ==
    /\ Applied /\ Len(CallPairs) = MaxPairs
    /\ \A k \in 1..Len(CallPairs) : CannotMatch(CallContent0, CallPairs[k])
    /\ CallBefore = None /\ fs[call.block.filename] = None

\* the block holds no well-formed pair, and the existing file is unchanged
C6_NoPairExisting ==
    /\ Applied /\ CallPairs = <<>> /\ call.block.content # <<>>
    /\ CallBefore # None /\ fs = call.before

\* the pairs in block order, each one found as written in the content the
\* pairs before it produced
RECURSIVE InOrder(_, _)
InOrder(c, caps) ==
    IF caps = <<>> THEN [found |-> TRUE, content |-> c]
    ELSE IF Trim(Head(caps).search) # <<>> /\ Contains(c, Head(caps).search)
    THEN InOrder(Replace(c, Head(caps).search, Head(caps).replace), Tail(caps))
    ELSE [found |-> FALSE, content |-> c]

\* C7: when every pair of the block is found in the content produced by the
\* pairs before it, and the final content is not blank, apply succeeds and
\* the file holds the result of the whole sequence.
C7_PairsApplyInOrder ==
    (/\ Applied /\ CallPairs # <<>>
     /\ InOrder(CallContent0, CallPairs).found
     /\ Trim(InOrder(CallContent0, CallPairs).content) # <<>>)
        => /\ call.result = "Ok"
           /\ fs[call.block.filename] = Some(InOrder(CallContent0, CallPairs).content)

\* the second pair's search span is absent from the file and was introduced
\* by the first pair's replacement
C7_SecondPairFindsFirstReplacement ==
    /\ Applied /\ Len(CallPairs) = 2
    /\ InOrder(CallContent0, CallPairs).found
    /\ ~Contains(CallContent0, CallPairs[2].search)
    /\ Contains(CallPairs[1].replace, CallPairs[2].search)
    /\ fs[call.block.filename] = Some(InOrder(CallContent0, CallPairs).content)

\* C8: when a search-replace apply has at least one successful pair and the
\* resulting content is blank, the call succeeds and the file does not exist
\* afterwards, whatever its state before the call.
C8_BlankResultDeletes ==
    (/\ Applied /\ call.applier = "ContentApplier"
     /\ call.successful_replacements >= 1
     /\ Trim(call.current_content) = <<>>)
        => call.result = "Ok" /\ fs[call.block.filename] = None

\* C9: a block whose only pair has an empty search span and a replace span R
\* that is not blank, applied to a file that does not exist, succeeds and
\* creates the file with content exactly R.
C9_EmptySearchCreatesFile ==
    (/\ Applied /\ Len(CallPairs) = 1
     /\ CallPairs[1].search = <<>> /\ Trim(CallPairs[1].replace) # <<>>
     /\ CallBefore = None)
        => /\ call.result = "Ok"
           /\ fs[call.block.filename] = Some(CallPairs[1].replace)

\* a file was created from a replace span that ends with a newline
C9_CreatedWithTrailingNewline ==
    /\ Applied /\ Len(CallPairs) = 1
    /\ CallPairs[1].search = <<>> /\ CallPairs[1].replace = <<"a", "\n">>
    /\ CallBefore = None
    /\ fs[call.block.filename] = Some(<<"a", "\n">>)

\* the running content and the success count when the loop reaches pair k
Running(k) ==
    apply_pairs([content |-> CallContent0, n |-> 0], SubSeq(CallPairs, 1, k - 1))

LastPair == CallPairs[Len(CallPairs)]
BeforeLast == Running(Len(CallPairs))

\* C23: a pair whose search span is blank replaces the whole running content
\* by its replace span: when the last pair of the block has a blank search
\* span, the content the call computed is exactly that pair's replace span,
\* whatever the file held and whatever the pairs before it did, and the pair
\* counts as one success.
C23_EmptySearchReplacesAll ==
    (Applied /\ CallPairs # <<>> /\ Trim(LastPair.search) = <<>>)
        => /\ call.current_content = LastPair.replace
           /\ call.successful_replacements = BeforeLast.n + 1
           /\ (call.result = "Ok" /\ Trim(LastPair.replace) # <<>>
                  => fs[call.block.filename] = Some(LastPair.replace))

\* two blank-search pairs on a file with content: the file holds the replace
\* span of the second one only
C23_TwoEmptySearchPairs ==
    /\ Applied /\ Len(CallPairs) = 2
    /\ Trim(CallPairs[1].search) = <<>> /\ Trim(CallPairs[2].search) = <<>>
    /\ CallPairs[1].replace = <<"a">> /\ CallPairs[2].replace = <<"b">>
    /\ CallBefore = Some(<<"a", "b">>)
    /\ fs[call.block.filename] = Some(<<"b">>)

\* the number of offsets of s at which pat occurs
Occurrences(s, pat) ==
    Cardinality({i \in 0..(Len(s) - Len(pat)) : SubSeq(s, i + 1, i + Len(pat)) = pat})

\* C24: a pair whose search span is not blank and occurs in the running
\* content replaces every occurrence of it: when the last pair of the block
\* is such a pair, the content the call computed is the running content with
\* every non-overlapping occurrence replaced, and the success count is one
\* more than before the pair.
C24_ExactMatchReplacesAll ==
    (/\ Applied /\ CallPairs # <<>>
     /\ Trim(LastPair.search) # <<>>
     /\ Contains(BeforeLast.content, LastPair.search))
        => /\ call.current_content
                 = Replace(BeforeLast.content, LastPair.search, LastPair.replace)
           /\ call.successful_replacements = BeforeLast.n + 1

\* the running content holds the search span twice and both are replaced
C24_TwoOccurrencesReplaced ==
    /\ Applied /\ CallPairs # <<>>
    /\ LastPair.search = <<"a">> /\ LastPair.replace = <<"b">>
    /\ Occurrences(BeforeLast.content, <<"a">>) = 2
    /\ call.result = "Ok"
    /\ fs[call.block.filename] = Some(<<"b", "b">>)

\* C25: the fallback is taken only when the exact match fails: a pair whose
\* non-blank search span occurs as written is replaced as written, the
\* replace span untrimmed; a pair whose search span does not occur but occurs
\* without its trailing whitespace has every occurrence of the trimmed search
\* span replaced by the trimmed replace span, and counts as one success.
C25_TrimmedFallback ==
    (Applied /\ CallPairs # <<>> /\ Trim(LastPair.search) # <<>>)
        => /\ Contains(BeforeLast.content, LastPair.search)
                 => call.current_content
                      = Replace(BeforeLast.content, LastPair.search, LastPair.replace)
           /\ (/\ ~Contains(BeforeLast.content, LastPair.search)
               /\ Contains(BeforeLast.content, TrimEnd(LastPair.search)))
                 => /\ call.current_content
                          = Replace(BeforeLast.content, TrimEnd(LastPair.search),
                                    TrimEnd(LastPair.replace))
                    /\ call.successful_replacements = BeforeLast.n + 1

\* the search span matched only without its trailing newline, and the
\* replace span, a newline, was inserted as the empty text
C25_FallbackTrimsReplace ==
    /\ Applied /\ Len(CallPairs) = 1
    /\ LastPair.search = <<"a", "\n">> /\ LastPair.replace = <<"\n">>
    /\ CallBefore = Some(<<"a", "b">>)
    /\ ~Contains(CallContent0, LastPair.search)
    /\ call.result = "Ok" /\ call.successful_replacements = 1
    /\ fs[call.block.filename] = Some(<<"b">>)

\* C26: a pair that matches neither as written nor without its trailing
\* whitespace changes nothing and does not stop the block, and the call
\* succeeds when another pair succeeded: whenever some pair of the block
\* cannot match the content the loop has reached, the content and the count
\* are those of the block without that pair, and a count of at least one
\* makes the call return Ok.
C26_MissedPairSkipped ==
    (Applied /\ call.applier = "ContentApplier")
        => \A k \in 1..Len(CallPairs) :
              CannotMatch(Running(k).content, CallPairs[k])
                 => /\ Running(k + 1) = Running(k)
                    /\ call.current_content
                          = apply_pairs(Running(k),
                                        SubSeq(CallPairs, k + 1, Len(CallPairs))).content
                    /\ (call.successful_replacements >= 1 => call.result = "Ok")

\* C29: the pairs are matched against the file content and the block content
\* with every CR LF turned into LF, a successful call that writes leaves that
\* normalised content with the pairs applied in the file, and the diff it
\* logs is taken from the content as read, CR LF included.
C29_WritesNormalizedCopy ==
    (Applied /\ call.result = "Ok" /\ fs[call.block.filename] # None)
        => /\ fs[call.block.filename]
                 = Some(apply_pairs([content |-> CallContent0, n |-> 0], CallPairs).content)
           /\ call.print_diff
                 = Some([old |-> IF CallBefore = None THEN <<>> ELSE CallBefore[1],
                         new |-> call.current_content])

\* a file with a CR LF that no pair touched is written with LF in its place,
\* and the diff starts from the content with CR LF
C29_CrLfOutsideMatchBecomesLf ==
    /\ Applied /\ call.result = "Ok" /\ call.applier = "SearchReplaceApplier"
    /\ CallBefore = Some(<<"a", "\r", "\n", "b">>)
    /\ Len(CallPairs) = 1 /\ CallPairs[1].search = <<"b">>
    /\ CallPairs[1].replace = <<"a">>
    /\ fs[call.block.filename] = Some(<<"a", "\n", "a">>)
    /\ call.print_diff # None
    /\ call.print_diff[1].old = <<"a", "\r", "\n", "b">>

-----------------------------------------------------------------------------
(* The loop of extract_blocks.                                              *)

\* C27: the slice of a top-level block is never out of order: whenever the
\* loop is at a fence-close marker that pops the only open marker, that
\* marker's content_start is at most the close marker's start_index, and no
\* run aborts on the slice.
C27_SliceInOrder ==
    /\ pc # "panic"
    /\ (InLoop /\ ~Current.is_start /\ Len(stack) = 1)
          => Popped.content_start <= Current.start_index

\* the loop is at a fence-close marker and no marker is open
AtStrayClose == InLoop /\ ~Current.is_start /\ stack = <<>>

\* C28: a fence-close marker met on an empty stack is ignored: the step
\* emits nothing, leaves the stack empty and the emitted blocks as they were,
\* and moves to the next marker with the text and the list of markers
\* unchanged, so the markers after it are paired from the same state.
C28_StrayCloseIgnored ==
    [][AtStrayClose
         => /\ stack' = <<>> /\ blocks' = blocks /\ opened' = opened
            /\ content' = content /\ delimiters' = delimiters
            /\ pc' = "loop" /\ di' = di + 1]_vars

\* the text starts with a closing fence line, and the labeled fence after it
\* was extracted
C28_FenceAfterStrayClose ==
    /\ pc = "done" /\ Len(lines) >= 4
    /\ IsCloseLine(lines[1]) /\ IsOpenLine(lines[2])
    /\ IsDirectiveLine(lines[3]) /\ IsCloseLine(lines[Len(lines)])
    /\ Len(delimiters) = 3 /\ ~delimiters[1].is_start
    /\ Len(blocks) = 1 /\ blocks[1].filename = DirectiveName(lines[3])

-----------------------------------------------------------------------------
(* Concurrent apply calls.                                                  *)

Returned(t) == pc = "concurrent" /\ tasks[t].pc = "returned"

\* no other call targets the file of call t
SoleTarget(t) == \A u \in Tasks \ {t} : TaskFile(u) # TaskFile(t)

\* the call of t run alone on the files the calls were spawned on
Alone(t) == ContentApplier_apply(call.before, <<>>, tasks[t].block)

\* C21: calls on pairwise different files do not interfere: under every
\* interleaving of their steps, a call that has returned and is the only one
\* on its file has the result it has when run alone, and its file holds what
\* the call run alone leaves in it.
C21_DisjointCallsIndependent ==
    \A t \in Tasks :
       (Returned(t) /\ SoleTarget(t))
          => /\ tasks[t].result = Alone(t).result
             /\ fs[TaskFile(t)] = Alone(t).fs[TaskFile(t)]

\* two calls on different files, both with a write, have returned after
\* steps of one were taken between the read and the return of the other
C21_InterleavedWritesDone ==
    /\ \A t \in Tasks : Returned(t) /\ SoleTarget(t) /\ tasks[t].file_op = "write"
    /\ \A t \in Tasks : tasks[t].overlapped
    /\ \A t \in Tasks : fs[TaskFile(t)] = Some(tasks[t].new_content)
    /\ \E t \in Tasks : fs[TaskFile(t)] # call.before[TaskFile(t)]

\* C22: for two calls on the same path the last writer wins: when both have
\* returned and both wrote, the file holds exactly the content computed by
\* the call whose write came last.
C22_LastWriterWins ==
    (/\ \A t \in Tasks : Returned(t) /\ tasks[t].file_op = "write"
     /\ TaskFile(1) = TaskFile(2))
        => fs[TaskFile(1)]
             = Some(tasks[call.last_writer[TaskFile(1)]].new_content)

-----------------------------------------------------------------------------
(* The watch loop.                                                          *)

IsProcessed(e) == e.outcome \in {"processed_ok", "processed_err"}

\* the entries that set last_content: the start-up read and the processed
\* ticks
SetsLast(e) == e.outcome = "startup" \/ IsProcessed(e)

\* the content last_content held when entry k was made: the content of the
\* latest entry before k that set it
LastBefore(k) ==
    ticked[Max({j \in 1..(k - 1) : SetsLast(ticked[j])})].content

\* C30: a clipboard content is processed at most once per change.  The
\* content read at start-up is recorded, not processed; a tick is processed
\* exactly when its content was read, does not start with the identifier and
\* differs from the content of the latest start-up or processed entry, be
\* that one a success or a failure; an ignored or unchanged tick leaves
\* last_content alone; last_content is the content of the latest entry
\* that was the start-up read or a processed tick.
C30_ProcessedOncePerChange ==
    (pc \in {"watching", "stopped"})
        => /\ ticked # <<>> /\ ticked[1].outcome = "startup"
           /\ last_content = LastBefore(Len(ticked) + 1)
           /\ \A k \in 2..Len(ticked) :
                 /\ ticked[k].outcome # "startup"
                 /\ IsProcessed(ticked[k])
                       => /\ ticked[k].content # LastBefore(k)
                          /\ ~starts_with(ticked[k].content, 0, first_line_identifier)
                 /\ ticked[k].outcome = "unchanged"
                       => ticked[k].content = LastBefore(k)
                 /\ ticked[k].outcome = "ignored"
                       => starts_with(ticked[k].content, 0, first_line_identifier)

\* a content whose processing failed was read again on the next tick and
\* not processed again, after a first tick that read the start-up content
C30_FailedNotRetried ==
    /\ pc = "watching" /\ Len(ticked) = 4
    /\ ticked[2].outcome = "unchanged"
    /\ ticked[3].outcome = "processed_err"
    /\ ticked[4].outcome = "unchanged"
    /\ ticked[4].content = ticked[3].content
    /\ last_content = ticked[3].content

-----------------------------------------------------------------------------
(* Full content.                                                            *)

\* C10: after a full-content apply of {filename F, content C} has succeeded,
\* F exists and reading it yields exactly C, for every C, the empty content
\* included, and whether or not F existed before.
C10_FullContentRoundTrip ==
    (call.applier # "none" /\ call.result = "Ok")
        => fs[call.block.filename] = Some(call.block.content)

\* C11: a full-content apply performs no filesystem write when the target
\* file already holds the block's content (so the second of two applies of
\* the same block writes nothing), and it leaves the file system unchanged.
C11_NoWriteWhenUnchanged ==
    (call.applier # "none"
     /\ call.before[call.block.filename] = Some(call.block.content))
        => (~call.wrote /\ fs = call.before)

-----------------------------------------------------------------------------
(* Processing the extracted blocks.                                         *)

\* C12: a block whose apply fails does not keep its siblings from being
\* applied: when process_standard has returned, every block of the
\* extracted list has been attempted.
C12_SiblingsStillAttempted ==
    pc \in {"returned_ok", "returned_err"} => ncalls = Len(blocks)

-----------------------------------------------------------------------------
(* The filename and the type of a block.                                    *)

IsAbsolute(fname) == fname # <<>> /\ fname[1] = "/"
HasGitPrefix(fname) == fname # <<>> /\ fname[1] \in {"a/", "b/"}

\* C13: every block extract_blocks returns has a filename that is not
\* empty, is a relative path and does not start with a/ or b/.
C13_FilenameNormalized ==
    pc = "done" =>
        \A k \in 1..Len(blocks) :
            /\ blocks[k].filename # <<>>
            /\ ~IsAbsolute(blocks[k].filename)
            /\ ~HasGitPrefix(blocks[k].filename)

\* the top-level fences whose first line is a directive, and those without
\* one in a text without any heading: nothing resolves their filename
DirectiveFences ==
    {p \in Fences(lines) : TopLevel(lines, p) /\ LabeledByDirective(lines, p)}
UnresolvedFences ==
    {p \in Fences(lines) :
        /\ TopLevel(lines, p) /\ ~LabeledByDirective(lines, p)
        /\ \A k \in 1..Len(lines) : ~IsHeadingLine(lines[k])}

\* C14: a top-level fence whose filename cannot be resolved yields no block
\* and no error: extract_blocks returns, and its blocks are those of the
\* labeled top-level fences of the text, each with its own filename.
C14_UnresolvedDropped ==
    (Terminal /\ UnresolvedFences # {}) =>
        /\ pc = "done"
        /\ Len(blocks) = Cardinality(DirectiveFences)
        /\ \A k \in 1..Len(blocks) :
              \E p \in DirectiveFences :
                 blocks[k].filename = DirectiveName(lines[p[1] + 1])

\* the number of fences open after line i when a tagged fence line opens a
\* fence and an untagged one closes the innermost open fence or, when none
\* is open, opens one
RECURSIVE Depth(_, _)
Depth(ls, i) ==
    IF i = 0 THEN 0
    ELSE IF IsOpenLine(ls[i]) THEN Depth(ls, i - 1) + 1
    ELSE IF IsCloseLine(ls[i])
    THEN IF Depth(ls, i - 1) > 0 THEN Depth(ls, i - 1) - 1 ELSE 1
    ELSE Depth(ls, i - 1)

\* line i opens a fence: it carries a tag, or it is an untagged fence line
\* met while no fence is open
OpensFence(ls, i) ==
    IsOpenLine(ls[i]) \/ (IsCloseLine(ls[i]) /\ Depth(ls, i - 1) = 0)

\* the type the tag of a fence-open line stands for
TypeOfTag(l) ==
    IF l = <<"<ticks>", "diff">> THEN UnifiedDiff
    ELSE IF l = <<"<ticks>", "replace">> THEN SearchReplaceBlock
    ELSE FullContent

Identified == pc \in {"loop", "done", "panic"}

\* C15: every fence is classified by its tag alone: for each block type the
\* fence-open markers of that type are as many as the fence-open lines whose
\* tag stands for it, an untagged fence-open line counting as FullContent.
C15_ClassifiedByTag ==
    Identified =>
        \A t \in {FullContent, UnifiedDiff, SearchReplaceBlock} :
            Cardinality({k \in 1..Len(delimiters) :
                            delimiters[k].is_start /\ delimiters[k].block_type = t})
            = Cardinality({i \in 1..Len(lines) :
                              OpensFence(lines, i) /\ TypeOfTag(lines[i]) = t})

-----------------------------------------------------------------------------
(* The filename of a fence-open marker.  The j-th fence-open marker is the  *)
(* marker of the j-th tagged fence line of the text.                        *)

StartMarkers == SelectSeq(delimiters, LAMBDA d : d.is_start)
OpenLines == {i \in 1..Len(lines) : IsOpenLine(lines[i])}
\* the index among the fence-open markers of the marker of open line i
MarkerOf(i) == Cardinality({k \in OpenLines : k <= i})

IsDiffOpen(l) == l = <<"<ticks>", "diff">>
HasDirective(i) == i < Len(lines) /\ IsDirectiveLine(lines[i + 1])
HeadingAbove(i) == \E k \in 1..(i - 1) : IsHeadingLine(lines[k])

\* C16: for a non-diff fence with a directive on the line after the
\* fence-open and a heading anywhere before it, the filename of the marker
\* is the directive's, not the heading's.
C16_DirectiveOverHeading ==
    Identified =>
        \A i \in OpenLines :
            (~IsDiffOpen(lines[i]) /\ HasDirective(i) /\ HeadingAbove(i)) =>
                StartMarkers[MarkerOf(i)].filename
                    = Some(DirectiveName(lines[i + 1]))

C16_HeadingAndDirective ==
    /\ Identified
    /\ \E i \in OpenLines :
          /\ ~IsDiffOpen(lines[i]) /\ HasDirective(i) /\ HeadingAbove(i)
          /\ lines[i - 1] = <<"#", " ", "g">>
          /\ StartMarkers[MarkerOf(i)].filename = Some(<<"f">>)

IsDiffFileLine(l) == l # <<>> /\ l[1] = "---"
\* neither a directive nor a diff source line follows the fence-open line i
NoInlineName(i) ==
    i = Len(lines) \/ (~IsDirectiveLine(lines[i + 1]) /\ ~IsDiffFileLine(lines[i + 1]))
\* a path without its leading a/ or b/
WithoutGitPrefix(path) == IF HasGitPrefix(path) THEN Tail(path) ELSE path
HeadingName(l) == WithoutGitPrefix(Trim(SubSeq(l, 2, Len(l))))

\* the fence-open line of the previous top-level block, and the previous
\* fence-open line of any depth; 0 when there is none
PreviousTopLevel(i) ==
    Max({0} \cup {k \in OpenLines : k < i /\ OpenAfter(lines, k - 1) = <<>>})
PreviousOpen(i) == Max({0} \cup {k \in OpenLines : k < i})

\* the filename the nearest heading between line `from` and line i gives
NearestHeading(from, i) ==
    LET hs == {h \in 1..Len(lines) : from < h /\ h < i /\ IsHeadingLine(lines[h])}
    IN  IF hs = {} THEN None ELSE Some(HeadingName(lines[Max(hs)]))

\* C17 as stated: without a directive or diff source line, a fence-open
\* marker takes the filename of the nearest preceding heading that lies
\* after the start of the previous top-level block, and has no filename
\* when there is no such heading.
C17_HeadingAfterPreviousTopLevel ==
    Identified =>
        \A i \in OpenLines :
            NoInlineName(i) =>
                StartMarkers[MarkerOf(i)].filename
                    = NearestHeading(PreviousTopLevel(i), i)

\* C17 amended: the heading must lie after the start of the previous
\* fence-open marker, top-level or nested; a heading before it is never
\* used, so no heading labels two blocks.
C17_HeadingAfterPreviousOpen ==
    Identified =>
        \A i \in OpenLines :
            NoInlineName(i) =>
                StartMarkers[MarkerOf(i)].filename
                    = NearestHeading(PreviousOpen(i), i)

\* a heading labels the fence that follows it and is not reused by the
\* fence after that one
C17_HeadingNotReused ==
    /\ Identified
    /\ \E i, j \in OpenLines :
          /\ i < j /\ PreviousOpen(j) = i /\ NoInlineName(i) /\ NoInlineName(j)
          /\ StartMarkers[MarkerOf(i)].filename = Some(<<"g">>)
          /\ NearestHeading(i, j) = None
          /\ StartMarkers[MarkerOf(j)].filename = None

\* the offset in the text of the first token of line i
LineStart(i) == Len(JoinLines(SubSeq(lines, 1, i - 1))) + (IF i > 1 THEN 1 ELSE 0)
DiffFilePath(l) == Trim(SubSeq(l, 2, Len(l)))
\* the fence-open line i carries the tag diff and a source-file line follows
DiffFenceWithSource(i) ==
    IsDiffOpen(lines[i]) /\ i < Len(lines) /\ IsDiffFileLine(lines[i + 1])

\* C18: for a diff fence whose first line is a --- source-file line, the
\* filename of the marker is the path of that line without a leading a/ or
\* b/, whether or not a heading precedes the fence, and the content of the
\* block starts at the --- line.
C18_DiffSourceLine ==
    Identified =>
        \A i \in OpenLines :
            DiffFenceWithSource(i) =>
                /\ StartMarkers[MarkerOf(i)].filename
                      = Some(WithoutGitPrefix(DiffFilePath(lines[i + 1])))
                /\ StartMarkers[MarkerOf(i)].content_start = LineStart(i + 1)

\* a diff fence under a heading, extracted: the block is named by the source
\* line and begins with it
C18_DiffUnderHeading ==
    /\ pc = "done"
    /\ \E i \in OpenLines :
          /\ DiffFenceWithSource(i) /\ i > 1 /\ IsHeadingLine(lines[i - 1])
          /\ lines[i + 1] = <<"---", " ", "a/", "f">>
          /\ blocks = << [filename |-> <<"f">>,
                          content |-> <<"---", " ", "a/", "f", "\n">>,
                          block_type |-> UnifiedDiff] >>

-----------------------------------------------------------------------------
(* The order of the emitted blocks.                                         *)

\* the fence-open marker that starts at offset o
MarkerAt(o) ==
    CHOOSE d \in {delimiters[k] : k \in 1..Len(delimiters)} :
        d.is_start /\ d.start_index = o

\* C19: the blocks are in source order: the k-th block is the block of the
\* k-th emitted fence-open marker, and of two blocks the one whose opening
\* fence starts earlier in the text comes earlier.
C19_SourceOrder ==
    /\ Len(opened) = Len(blocks)
    /\ \A k \in 1..Len(blocks) :
          /\ MarkerAt(opened[k]).filename = Some(blocks[k].filename)
          /\ MarkerAt(opened[k]).block_type = blocks[k].block_type
    /\ \A k, l \in 1..Len(blocks) : k < l => opened[k] < opened[l]

\* two fences with different filenames, both emitted
C19_TwoBlocksInOrder ==
    /\ pc = "done"
    /\ Len(blocks) = 2
    /\ blocks[1].filename = <<"g">> /\ blocks[2].filename = <<"f">>
    /\ opened[1] < opened[2]

-----------------------------------------------------------------------------
(* Texts without fences.                                                    *)

NoFenceLine == \A k \in 1..Len(lines) : ~IsFenceLine(lines[k])

=============================================================================
